---------------------------- MODULE Spec2Model ----------------------------
(***************************************************************************)
(* Model of the interactive map engine of the disaster-report frontend     *)
(* (src/src/components/map/DisasterMap.tsx): the two vector sources kept   *)
(* in step with the `reports` and `userLocation` props, the singleclick    *)
(* handler with its hit test, and the single popup overlay.                *)
(*                                                                         *)
(* Geographic coordinates are records [lat, lng] on a small integer grid;  *)
(* projected (map-space) coordinates are records [x, y].  The view is held *)
(* at one map unit per pixel, so a click is identified by the map          *)
(* coordinate of its pixel (event.coordinate).                             *)
(***************************************************************************)
EXTENDS Integers, Sequences, FiniteSets, TLC

(***************************************************************************)
(* Bounds of the model.                                                    *)
(***************************************************************************)
MaxLng == 2
MaxLat == 2
MaxReports == 2

(***************************************************************************)
(* JavaScript `undefined` / `null`.                                        *)
(***************************************************************************)
Undefined == [undefined |-> TRUE]

(***************************************************************************)
(* CoordinateAdapter: ol/proj fromLonLat / toLonLat (EPSG:4326 <->         *)
(* EPSG:3857).  x is linear in the longitude, y grows faster than linearly *)
(* with the latitude.  Both take and return [lng, lat] / [x, y] ORDER, as  *)
(* the library does: the first component is the longitude.                 *)
(***************************************************************************)
XScale == 2

MercY(lat) == lat * lat + 2 * lat

fromLonLat(lonLat) == [x |-> lonLat[1] * XScale, y |-> MercY(lonLat[2])]

toLonLat(coordinate) ==
    << coordinate.x \div XScale,
       CHOOSE lat \in 0..(coordinate.y) : MercY(lat) <= coordinate.y
                                          /\ MercY(lat + 1) > coordinate.y >>

(***************************************************************************)
(* Inputs: the geographic grid, the click positions, the reports the       *)
(* caller may pass, the user locations and the click callbacks.            *)
(***************************************************************************)
GeoGrid == [lat : 0..MaxLat, lng : 0..MaxLng]

ClickCoordinates == { fromLonLat(<<g.lng, g.lat>>) : g \in GeoGrid }

ReportPool ==
    { [id |-> 1, type |-> "flood", status |-> "pending", description |-> "d1",
       location |-> [lat |-> 1, lng |-> 1], imageUrl |-> Undefined],
      [id |-> 1, type |-> "flood", status |-> "resolved", description |-> "d1",
       location |-> [lat |-> 2, lng |-> 1], imageUrl |-> Undefined],
      [id |-> 2, type |-> "fire", status |-> "verified", description |-> "d2",
       location |-> [lat |-> 0, lng |-> 2], imageUrl |-> [url |-> "img2"]] }

UniqueIds(R) == \A i, j \in 1..Len(R) : R[i].id = R[j].id => i = j

ReportLists ==
    { R \in UNION { [1..n -> ReportPool] : n \in 0..MaxReports } : UniqueIds(R) }

UserLocations == { Undefined, [lat |-> 1, lng |-> 1], [lat |-> 2, lng |-> 0] }

Callbacks == { Undefined, [fn |-> "cbA"], [fn |-> "cbB"] }

\* the callbacks of the first render: none, or one that later renders replace
InitialCallbacks == { Undefined, [fn |-> "cbA"] }

\* a report that lacks its location
MalformedReport ==
    [id |-> 3, type |-> "fire", status |-> "pending", description |-> "d3",
     location |-> Undefined, imageUrl |-> Undefined]

ReportListsWithMalformed ==
    { R \in UNION { [1..n -> ReportPool \cup { MalformedReport }] :
                      n \in 0..MaxReports } : UniqueIds(R) }

Centers == { Undefined, [lat |-> 1, lng |-> 1], [lat |-> 0, lng |-> 2] }

SelectedReports == { Undefined } \cup ReportPool

DefaultZoom == 13
FocusedZoom == 15
AnimationDuration == 1000

Zooms == { DefaultZoom, 10 }

Container == [element |-> "div"]

(***************************************************************************)
(* IconFactory.  Only the anchor of a style matters to the hit test: the   *)
(* report glyph is anchored at its bottom centre, the user dot at its      *)
(* centre.                                                                 *)
(***************************************************************************)
getDisasterEmoji(type) == [emoji |-> type]

getDisasterDisplayName(type) == [displayName |-> type]

getStatusColor(status) == [color |-> status]

createDisasterIconStyle(type) ==
    [glyph |-> getDisasterEmoji(type), anchor |-> "bottom-center"]

createUserLocationStyle == [glyph |-> [emoji |-> "user"], anchor |-> "center"]

IconHalfWidth == 2
IconHeight == 4

(***************************************************************************)
(* Number.prototype.toFixed(4) on a grid value: the rounded value in       *)
(* ten-thousandths.                                                        *)
(***************************************************************************)
toFixed4(v) == v * 10000

VARIABLES
    reports,                \* prop: the current report list
    userLocation,           \* prop: Coordinates or null
    onMapClick,             \* prop: the callback of the current render
    handlerOnMapClick,      \* the onMapClick the singleclick closure captured
    markersSource,          \* features of the marker layer, in insertion order
    userLocationSource,     \* features of the user-location layer
    popupElement,           \* child nodes of the popup element
    popupOverlayPosition,   \* position of the popup overlay, or Undefined
    lastEvent,              \* history: kind of the event handled last
    clickLog,               \* history: what the most recent singleclick did
    center,                 \* prop: explicit center, or Undefined
    selectedReport,         \* prop: the selected report, or Undefined
    zoom,                   \* prop: zoom, 13 when the caller gives none
    mapRef,                 \* mapRef.current: the host container, or Undefined
    mapInstance,            \* mapInstanceRef.current: the map, or Undefined
    previousCenterRef,      \* previousCenterRef.current
    animation,              \* the view.animate call issued last, or Undefined
    effectLog,              \* history: what the animation effect did in the
                            \* event handled last
    thrown,                 \* an exception escaped an effect
    lifetime,               \* history: what the map effect has constructed
                            \* since the mount began, and whether StrictMode
                            \* has replayed the effects
    auth,                   \* the store's state.auth
    localStorage,           \* the item 'auth_token', or Undefined when absent
    inflight,               \* the auth thunks dispatched and not yet settled
    route,                  \* the route guard: its local state and what it
                            \* rendered last
    authEvent,              \* history: the auth event handled last
    geolocationState,       \* useGeolocation: state, with every queued
                            \* updater applied
    isRequestingRef,        \* isRequestingRef.current
    hasRequestedRef,        \* hasRequestedRef.current
    retryAttemptedRef,      \* retryAttemptedRef.current
    renderScheduled,        \* a setState has been called since the last
                            \* render of the hook
    queries,                \* navigator.permissions.query promises not yet
                            \* resolved, by the call that made them
    permissionStatus,       \* the browser's geolocation permission and the
                            \* onchange listeners, Undefined when the browser
                            \* has no navigator.permissions
    navigatorGeolocation,   \* the browser has navigator.geolocation
    timer,                  \* the timer of the auto-request effect, or
                            \* Undefined
    requests,               \* navigator.geolocation.getCurrentPosition
                            \* requests neither of whose callbacks has been
                            \* delivered, oldest first
    positionUnavailable,    \* history: a request failed with
                            \* POSITION_UNAVAILABLE and the permission has
                            \* not changed to granted since
    geoEvent                \* history: the hook event handled last

mapVars == << reports, userLocation, onMapClick, handlerOnMapClick,
              markersSource, userLocationSource, popupElement,
              popupOverlayPosition, clickLog >>

viewState == << center, selectedReport, zoom, previousCenterRef, animation >>

viewVars == << viewState, effectLog >>

authVars == << auth, localStorage, inflight, route, authEvent >>

disasterMapVars == << mapVars, viewVars, mapRef, mapInstance, lastEvent,
                     thrown, lifetime >>

geoVars == << geolocationState, isRequestingRef, hasRequestedRef,
             retryAttemptedRef, renderScheduled, queries, permissionStatus,
             navigatorGeolocation, timer, requests, positionUnavailable,
             geoEvent >>

vars == << disasterMapVars, authVars, geoVars >>

\* the session of a visitor who never signed in, with no route guard mounted
NoRoute ==
    [variant |-> "none", hasCheckedToken |-> FALSE, isValidating |-> FALSE,
     output |-> "none", token |-> Undefined, isAuthenticated |-> FALSE]

NoAuthEvent ==
    [kind |-> "load", thunk |-> "none", status |-> 0, dispatched |-> << >>,
     rejection |-> Undefined]

\* useState's initial value (useGeolocation.ts 24-29)
initialGeolocationState ==
    [location |-> Undefined, error |-> Undefined, loading |-> FALSE,
     permission |-> "unknown"]

NoQueries == [checkPermission |-> 0, effect |-> 0, stale |-> 0]

NoGeoEvent == [kind |-> "mount", by |-> "react"]

\* the hook of a page that has rendered it and left it alone
GeoIdle ==
    /\ geolocationState = initialGeolocationState
    /\ isRequestingRef = FALSE
    /\ hasRequestedRef = FALSE
    /\ retryAttemptedRef = FALSE
    /\ renderScheduled = FALSE
    /\ queries = NoQueries
    /\ permissionStatus = Undefined
    /\ navigatorGeolocation = FALSE
    /\ timer = Undefined
    /\ requests = << >>
    /\ positionUnavailable = FALSE
    /\ geoEvent = NoGeoEvent

AuthIdle ==
    /\ auth = [user |-> Undefined, token |-> Undefined,
               isAuthenticated |-> FALSE, isLoading |-> FALSE,
               error |-> Undefined]
    /\ localStorage = Undefined
    /\ inflight = << >>
    /\ route = NoRoute
    /\ authEvent = NoAuthEvent

NoEffect == [target |-> Undefined, before |-> Undefined, started |-> 0]

NoClick == [coordinate |-> Undefined, feature |-> Undefined, branches |-> {},
            calls |-> << >>, before |-> [state |-> "Hidden"]]

(***************************************************************************)
(* MapSurfaceController: the map effect.  It returns at once without a     *)
(* host container; otherwise it constructs the popup overlay, the two      *)
(* vector sources and the map, whose view starts at the explicit centre or *)
(* at the fallback coordinate.  `a || b` takes b when a is undefined or 0. *)
(* The fallback (lat 6.5244, lng 3.3792) is taken in the whole degrees of  *)
(* the grid.                                                               *)
(***************************************************************************)
FallbackLng == 3
FallbackLat == 6

MaxBuilt == 2

\* center?.lng || fallback
OrElse(object, field, fallback) ==
    IF object = Undefined THEN fallback
    ELSE LET value == IF field = "lng" THEN object.lng ELSE object.lat
         IN  IF value = 0 THEN fallback ELSE value

InitialView(explicit, level) ==
    [center |-> fromLonLat(<< OrElse(explicit, "lng", FallbackLng),
                              OrElse(explicit, "lat", FallbackLat) >>),
     zoom |-> level]

\* if (!mapRef.current) return; ...; mapInstanceRef.current = map
InitializeMap(container, explicit, level) ==
    IF container = Undefined THEN Undefined
    ELSE [target |-> container, view |-> InitialView(explicit, level)]

\* map.setTarget(target)
setTarget_keepsHost(map, target) == map

setTarget(map, target) == [map EXCEPT !.target = target]

NotBuilt ==
    [map |-> 0, markersSource |-> 0, userLocationSource |-> 0,
     popupOverlay |-> 0, strict |-> FALSE]

Again(n) == IF n < MaxBuilt THEN n + 1 ELSE n

\* one run of the map effect body
Construct(life) ==
    [life EXCEPT !.map = Again(@), !.markersSource = Again(@),
                 !.userLocationSource = Again(@), !.popupOverlay = Again(@)]

\* the dependencies of the map effect: none
MapEffectDeps == { }

\* a re-render in which `prop` changed: an effect runs again only when one
\* of its dependencies changed
AfterRender_rebuildsOnReports(life, prop) ==
    IF prop \in MapEffectDeps \cup { "reports" } THEN Construct(life) ELSE life

AfterRender(life, prop) ==
    IF prop \in MapEffectDeps THEN Construct(life) ELSE life

(***************************************************************************)
(* State after the mount effects ran for a first render with no reports,   *)
(* no user location, no explicit center and no selected report, in a host  *)
(* container.                                                              *)
(***************************************************************************)
Init ==
    /\ reports = << >>
    /\ userLocation = Undefined
    /\ onMapClick \in InitialCallbacks
    /\ handlerOnMapClick = onMapClick
    /\ markersSource = << >>
    /\ userLocationSource = << >>
    /\ popupElement = << >>
    /\ popupOverlayPosition = Undefined
    /\ lastEvent = "mount"
    /\ clickLog = NoClick
    /\ center = Undefined
    /\ selectedReport = Undefined
    /\ zoom = DefaultZoom
    /\ mapRef = Container
    /\ mapInstance = InitializeMap(Container, Undefined, DefaultZoom)
    /\ previousCenterRef = Undefined
    /\ animation = Undefined
    /\ effectLog = NoEffect
    /\ thrown = FALSE
    /\ lifetime = Construct(NotBuilt)
    /\ AuthIdle
    /\ GeoIdle


(***************************************************************************)
(* MapFeature: an ol Feature with a Point geometry, a style and the        *)
(* properties set on it.  get(feature, key) is undefined for a key that    *)
(* was never set.                                                          *)
(***************************************************************************)
Point(coordinates) == [type |-> "Point", coordinates |-> coordinates]

Has(feature, key) == feature # Undefined /\ key \in DOMAIN feature.properties

ReportFeature_latLngSwapped(report) ==
    [geometry |-> Point(fromLonLat(<<report.location.lat, report.location.lng>>)),
     style |-> createDisasterIconStyle(report.type),
     properties |-> [reportData |-> report]]

ReportFeature(report) ==
    [geometry |-> Point(fromLonLat(<<report.location.lng, report.location.lat>>)),
     style |-> createDisasterIconStyle(report.type),
     properties |-> [reportData |-> report]]

UserLocationFeature(location) ==
    [geometry |-> Point(fromLonLat(<<location.lng, location.lat>>)),
     style |-> createUserLocationStyle,
     properties |-> [isUserLocation |-> TRUE]]

(***************************************************************************)
(* VectorSource.clear() and VectorSource.addFeature().                     *)
(***************************************************************************)
clear(source) == << >>

addFeature(source, feature) == Append(source, feature)

(***************************************************************************)
(* MarkerSynchronizer: the two synchronization effects.                    *)
(***************************************************************************)
\* report.location.lng on a report without location raises a TypeError
Throws(report) == report.location = Undefined

\* reports.forEach: the callback that throws ends the loop, the features
\* added before it stay
RECURSIVE forEachReport(_, _)
forEachReport(source, list) ==
    IF list = << >> THEN source
    ELSE IF Throws(Head(list)) THEN source
    ELSE forEachReport(addFeature(source, ReportFeature(Head(list))), Tail(list))

MarkersEffect_noClear(source, list) == forEachReport(source, list)

MarkersEffect(source, list) == forEachReport(clear(source), list)

MarkersEffectThrows(list) == \E i \in 1..Len(list) : Throws(list[i])

UserLocationEffect_noClear(source, location) ==
    IF location # Undefined
    THEN addFeature(source, UserLocationFeature(location))
    ELSE source

UserLocationEffect(source, location) ==
    IF location # Undefined
    THEN addFeature(clear(source), UserLocationFeature(location))
    ELSE clear(source)

(***************************************************************************)
(* ViewAnimator: the animation effect.  It yields the previousCenterRef    *)
(* and the animate call it leaves, and what it did.                        *)
(***************************************************************************)
\* center || selectedReport?.location || userLocation
ResolveTarget_userFirst(explicit, selected, location) ==
    IF location # Undefined THEN location
    ELSE IF selected # Undefined /\ selected.location # Undefined
    THEN selected.location
    ELSE explicit

ResolveTarget(explicit, selected, location) ==
    IF explicit # Undefined THEN explicit
    ELSE IF selected # Undefined /\ selected.location # Undefined
    THEN selected.location
    ELSE location

\* center || selectedReport ? 15 : zoom
TargetZoom_always15(explicit, selected, level) == FocusedZoom

TargetZoom_callerZoom(explicit, selected, level) == level

TargetZoom(explicit, selected, level) ==
    IF explicit # Undefined \/ selected # Undefined THEN FocusedZoom ELSE level

\* !previousCenterRef.current || lat !== lat || lng !== lng
CenterChanged_byReference(previous, target) == TRUE

CenterChanged(previous, target) ==
    \/ previous = Undefined
    \/ previous.lat # target.lat
    \/ previous.lng # target.lng

Effect(previous, issued, log) ==
    [previousCenterRef |-> previous, animation |-> issued, log |-> log]

AnimationEffect_forgetsOnNone(map, previous, issued, explicit, selected, location, level) ==
    LET target == ResolveTarget(explicit, selected, location) IN
    IF map = Undefined THEN Effect(previous, issued, NoEffect)
    ELSE IF target = Undefined
    THEN Effect(Undefined, issued,
                [target |-> target, before |-> previous, started |-> 0])
    ELSE IF CenterChanged(previous, target)
    THEN Effect(target,
                [center |-> fromLonLat(<<target.lng, target.lat>>),
                 zoom |-> TargetZoom(explicit, selected, level),
                 duration |-> AnimationDuration],
                [target |-> target, before |-> previous, started |-> 1])
    ELSE Effect(previous, issued,
                [target |-> target, before |-> previous, started |-> 0])

AnimationEffect(map, previous, issued, explicit, selected, location, level) ==
    LET target == ResolveTarget(explicit, selected, location) IN
    IF map = Undefined THEN Effect(previous, issued, NoEffect)
    ELSE IF target = Undefined
    THEN Effect(previous, issued,
                [target |-> target, before |-> previous, started |-> 0])
    ELSE IF CenterChanged(previous, target)
    THEN Effect(target,
                [center |-> fromLonLat(<<target.lng, target.lat>>),
                 zoom |-> TargetZoom(explicit, selected, level),
                 duration |-> AnimationDuration],
                [target |-> target, before |-> previous, started |-> 1])
    ELSE Effect(previous, issued,
                [target |-> target, before |-> previous, started |-> 0])

\* the animation effect run of a render with the given view inputs
RunAnimationEffect(explicit, selected, location, level) ==
    LET done == AnimationEffect(mapInstance, previousCenterRef, animation,
                                explicit, selected, location, level)
    IN  /\ previousCenterRef' = done.previousCenterRef
        /\ animation' = done.animation
        /\ effectLog' = done.log

(***************************************************************************)
(* A new `reports` reference arrives: re-render, then the markers effect,  *)
(* which returns at once while there is no source.  An exception of the    *)
(* effect escapes to the caller.                                           *)
(***************************************************************************)
UpdateReports_closesPopup(list) ==
    /\ reports' = list
    /\ markersSource' = IF mapInstance # Undefined
                        THEN MarkersEffect(markersSource, list)
                        ELSE markersSource
    /\ thrown' = (mapInstance # Undefined /\ MarkersEffectThrows(list))
    /\ lastEvent' = "reports"
    /\ popupOverlayPosition' = Undefined
    /\ UNCHANGED << userLocation, onMapClick, handlerOnMapClick,
                    userLocationSource, popupElement, clickLog, viewState,
                    mapRef, mapInstance >>
    /\ effectLog' = NoEffect
    /\ lifetime' = AfterRender(lifetime, "reports")
    /\ UNCHANGED << authVars, geoVars >>

UpdateReports(list) ==
    /\ reports' = list
    /\ markersSource' = IF mapInstance # Undefined
                        THEN MarkersEffect(markersSource, list)
                        ELSE markersSource
    /\ thrown' = (mapInstance # Undefined /\ MarkersEffectThrows(list))
    /\ lastEvent' = "reports"
    /\ UNCHANGED << userLocation, onMapClick, handlerOnMapClick,
                    userLocationSource, popupElement, popupOverlayPosition,
                    clickLog, viewState, mapRef, mapInstance >>
    /\ effectLog' = NoEffect
    /\ lifetime' = AfterRender(lifetime, "reports")
    /\ UNCHANGED << authVars, geoVars >>

(***************************************************************************)
(* A new `userLocation` arrives: re-render, then the user-location effect  *)
(* and the animation effect, both of which depend on it.                   *)
(***************************************************************************)
UpdateUserLocation(location) ==
    /\ userLocation' = location
    /\ userLocationSource' = IF mapInstance # Undefined
                             THEN UserLocationEffect(userLocationSource, location)
                             ELSE userLocationSource
    /\ RunAnimationEffect(center, selectedReport, location, zoom)
    /\ lastEvent' = "userLocation"
    /\ UNCHANGED << reports, onMapClick, handlerOnMapClick, markersSource,
                    popupElement, popupOverlayPosition, clickLog, center,
                    selectedReport, zoom, mapRef, mapInstance, thrown >>
    /\ lifetime' = AfterRender(lifetime, "userLocation")
    /\ UNCHANGED << authVars, geoVars >>

(***************************************************************************)
(* A new `center`, `selectedReport` or `zoom` arrives: re-render, then the *)
(* animation effect.                                                       *)
(***************************************************************************)
UpdateCenter(explicit) ==
    /\ center' = explicit
    /\ RunAnimationEffect(explicit, selectedReport, userLocation, zoom)
    /\ lastEvent' = "center"
    /\ UNCHANGED << mapVars, selectedReport, zoom, mapRef, mapInstance, thrown >>
    /\ lifetime' = AfterRender(lifetime, "center")
    /\ UNCHANGED << authVars, geoVars >>

UpdateSelectedReport(selected) ==
    /\ selectedReport' = selected
    /\ RunAnimationEffect(center, selected, userLocation, zoom)
    /\ lastEvent' = "selectedReport"
    /\ UNCHANGED << mapVars, center, zoom, mapRef, mapInstance, thrown >>
    /\ lifetime' = AfterRender(lifetime, "selectedReport")
    /\ UNCHANGED << authVars, geoVars >>

UpdateZoom(level) ==
    /\ level # zoom
    /\ zoom' = level
    /\ RunAnimationEffect(center, selectedReport, userLocation, level)
    /\ lastEvent' = "zoom"
    /\ UNCHANGED << mapVars, center, selectedReport, mapRef, mapInstance,
                    thrown >>
    /\ lifetime' = AfterRender(lifetime, "zoom")
    /\ UNCHANGED << authVars, geoVars >>

(***************************************************************************)
(* A re-render with another onMapClick prop.  The map effect has no        *)
(* dependencies, so the singleclick listener registered at mount stays.    *)
(***************************************************************************)
UpdateOnMapClick(callback) ==
    /\ onMapClick' = callback
    /\ lastEvent' = "onMapClick"
    /\ UNCHANGED << reports, userLocation, handlerOnMapClick, markersSource,
                    userLocationSource, popupElement, popupOverlayPosition,
                    clickLog, viewState, mapRef, mapInstance, thrown >>
    /\ effectLog' = NoEffect
    /\ lifetime' = AfterRender(lifetime, "onMapClick")
    /\ UNCHANGED << authVars, geoVars >>


(***************************************************************************)
(* Hit test.  A feature is hit by a click when the click lies inside the   *)
(* icon drawn for it: the report icon stands on its point (anchor at the   *)
(* bottom centre, so it covers the points north of it), the user icon is   *)
(* centred on its point.                                                   *)
(***************************************************************************)
Abs(n) == IF n < 0 THEN -n ELSE n

Covers(feature, coordinate) ==
    LET at == feature.geometry.coordinates IN
    /\ Abs(coordinate.x - at.x) <= IconHalfWidth
    /\ IF feature.style.anchor = "bottom-center"
       THEN coordinate.y - at.y \in 0..IconHeight
       ELSE 2 * Abs(coordinate.y - at.y) <= IconHeight

FeaturesAt(source, coordinate) ==
    { source[i] : i \in { j \in 1..Len(source) : Covers(source[j], coordinate) } }

(***************************************************************************)
(* map.forEachFeatureAtPixel(pixel, feature => feature): the layers are    *)
(* visited from the topmost (the user-location layer, added last) down to  *)
(* the marker layer, and the first feature stops the search.  Which of     *)
(* several overlapping features of one layer comes first is left open.     *)
(* The set of values the call may return; {Undefined} on a miss.           *)
(***************************************************************************)
forEachFeatureAtPixel_markersFirst(markers, user, coordinate) ==
    IF FeaturesAt(markers, coordinate) # {} THEN FeaturesAt(markers, coordinate)
    ELSE IF FeaturesAt(user, coordinate) # {} THEN FeaturesAt(user, coordinate)
    ELSE { Undefined }

forEachFeatureAtPixel(markers, user, coordinate) ==
    IF FeaturesAt(user, coordinate) # {} THEN FeaturesAt(user, coordinate)
    ELSE IF FeaturesAt(markers, coordinate) # {} THEN FeaturesAt(markers, coordinate)
    ELSE { Undefined }

(***************************************************************************)
(* PopupController.  A child node of the popup element is a record of what *)
(* it renders.  closer.onclick tells whether the close control of the node *)
(* carries the handler that hides the overlay: the report popup appends    *)
(* the <a> element itself, the user popup only its outerHTML, and markup   *)
(* does not carry an onclick property.  reportId is the id of the report   *)
(* the node was rendered from.                                             *)
(***************************************************************************)
ReportPopupContent_latLngSwapped(reportData) ==
    [kind |-> "report",
     reportId |-> reportData.id,
     closer |-> [onclick |-> TRUE],
     emoji |-> getDisasterEmoji(reportData.type),
     name |-> getDisasterDisplayName(reportData.type),
     statusColor |-> getStatusColor(reportData.status),
     status |-> reportData.status,
     description |-> reportData.description,
     coordinates |-> << toFixed4(reportData.location.lng),
                        toFixed4(reportData.location.lat) >>,
     image |-> reportData.imageUrl]

ReportPopupContent(reportData) ==
    [kind |-> "report",
     reportId |-> reportData.id,
     closer |-> [onclick |-> TRUE],
     emoji |-> getDisasterEmoji(reportData.type),
     name |-> getDisasterDisplayName(reportData.type),
     statusColor |-> getStatusColor(reportData.status),
     status |-> reportData.status,
     description |-> reportData.description,
     coordinates |-> << toFixed4(reportData.location.lat),
                        toFixed4(reportData.location.lng) >>,
     image |-> reportData.imageUrl]

UserPopupContent(lonLat) ==
    [kind |-> "user",
     closer |-> [onclick |-> FALSE],
     coordinates |-> << toFixed4(lonLat[2]), toFixed4(lonLat[1]) >>]

\* popupElement.innerHTML = ''; popupElement.appendChild(popupContent)
RenderReportPopup_stacks(element, reportData) ==
    Append(element, ReportPopupContent(reportData))

RenderReportPopup(element, reportData) ==
    Append(<< >>, ReportPopupContent(reportData))

\* popupElement.innerHTML = `...`
RenderUserPopup_keepsContent(element, lonLat) ==
    IF element = << >> THEN << UserPopupContent(lonLat) >> ELSE element

RenderUserPopup(element, lonLat) == << UserPopupContent(lonLat) >>

PopupState ==
    IF popupOverlayPosition = Undefined THEN [state |-> "Hidden"]
    ELSE IF popupElement # << >> /\ popupElement[Len(popupElement)].kind = "report"
    THEN [state |-> "ShownForReport",
          reportId |-> popupElement[Len(popupElement)].reportId]
    ELSE IF popupElement # << >> /\ popupElement[Len(popupElement)].kind = "user"
    THEN [state |-> "ShownForUserLocation"]
    ELSE [state |-> "ShownEmpty"]


(***************************************************************************)
(* HitTestDispatcher: the singleclick listener.  Each branch yields the    *)
(* popup element and overlay position it leaves, the onMapClick calls it   *)
(* made and the branches that ran.                                         *)
(***************************************************************************)
Outcome(element, position, calls, branches) ==
    [element |-> element, position |-> position, calls |-> calls,
     branches |-> branches]

\* if (reportData) { ... }
ShowReport(element, position, feature) ==
    Outcome(RenderReportPopup(element, feature.properties.reportData),
            feature.geometry.coordinates, << >>, { "report" })

\* else if (isUserLocation) { ... }
ShowUserLocation_noPosition(element, position, feature) ==
    Outcome(RenderUserPopup(element, toLonLat(feature.geometry.coordinates)),
            position, << >>, { "user" })

ShowUserLocation(element, position, feature) ==
    Outcome(RenderUserPopup(element, toLonLat(feature.geometry.coordinates)),
            feature.geometry.coordinates, << >>, { "user" })

\* else { if (onMapClick) {...}; popupOverlay.setPosition(undefined) }
MapClickArgument(coordinate) ==
    [lng |-> toLonLat(coordinate)[1], lat |-> toLonLat(coordinate)[2]]

HandleMiss_clearsContent(element, position, callback, coordinate) ==
    Outcome(<< >>, Undefined,
            IF callback # Undefined
            THEN << [fn |-> callback, arg |-> MapClickArgument(coordinate)] >>
            ELSE << >>,
            { "miss" })

HandleMiss(element, position, callback, coordinate) ==
    Outcome(element, Undefined,
            IF callback # Undefined
            THEN << [fn |-> callback, arg |-> MapClickArgument(coordinate)] >>
            ELSE << >>,
            { "miss" })

HandleFeature_nonPointHides(element, position, feature) ==
    IF feature.geometry.type = "Point"
    THEN IF Has(feature, "reportData")
         THEN ShowReport(element, position, feature)
         ELSE IF Has(feature, "isUserLocation")
         THEN ShowUserLocation(element, position, feature)
         ELSE Outcome(element, position, << >>, {})
    ELSE Outcome(element, Undefined, << >>, { "miss" })

HandleFeature(element, position, feature) ==
    IF feature.geometry.type = "Point"
    THEN IF Has(feature, "reportData")
         THEN ShowReport(element, position, feature)
         ELSE IF Has(feature, "isUserLocation")
         THEN ShowUserLocation(element, position, feature)
         ELSE Outcome(element, position, << >>, {})
    ELSE Outcome(element, position, << >>, {})

singleclick_fallsThrough(element, position, callback, feature, coordinate) ==
    IF feature # Undefined
    THEN LET hit == HandleFeature(element, position, feature)
             miss == HandleMiss(hit.element, hit.position, callback, coordinate)
         IN  Outcome(miss.element, miss.position, miss.calls,
                     hit.branches \cup miss.branches)
    ELSE HandleMiss(element, position, callback, coordinate)

singleclick(element, position, callback, feature, coordinate) ==
    IF feature # Undefined
    THEN HandleFeature(element, position, feature)
    ELSE HandleMiss(element, position, callback, coordinate)

\* one run of the listener on the feature the hit test returned
ClickOn(feature, coordinate) ==
    LET done == singleclick(popupElement, popupOverlayPosition,
                            handlerOnMapClick, feature, coordinate)
    IN  /\ popupElement' = done.element
        /\ popupOverlayPosition' = done.position
        /\ clickLog' = [coordinate |-> coordinate, feature |-> feature,
                        branches |-> done.branches, calls |-> done.calls,
                        before |-> PopupState]
        /\ lastEvent' = "click"
        /\ UNCHANGED << reports, userLocation, onMapClick,
                        handlerOnMapClick, markersSource,
                        userLocationSource, viewState, mapRef,
                        mapInstance, thrown, lifetime, authVars, geoVars >>
        /\ effectLog' = NoEffect

SingleClick(coordinate) ==
    /\ mapInstance # Undefined
    /\ \E feature \in forEachFeatureAtPixel(markersSource, userLocationSource,
                                            coordinate) :
           ClickOn(feature, coordinate)

(***************************************************************************)
(* The listener run on a feature whose geometry is no Point.  Neither      *)
(* effect creates one, so this takes the result of the hit test as an      *)
(* input of the listener.                                                  *)
(***************************************************************************)
NonPointFeature ==
    [geometry |-> [type |-> "LineString", coordinates |-> Undefined],
     style |-> Undefined,
     properties |-> [name |-> "route"]]

NonPointClick(coordinate) ==
    /\ mapInstance # Undefined
    /\ ClickOn(NonPointFeature, coordinate)

(***************************************************************************)
(* The user activates the close control of the popup while it is shown.    *)
(* Only a control that carries the onclick handler hides the overlay.      *)
(***************************************************************************)
closerClick(node, position) ==
    IF node.closer.onclick THEN Undefined ELSE position

CloseClick ==
    /\ popupOverlayPosition # Undefined
    /\ \E i \in 1..Len(popupElement) :
           popupOverlayPosition' = closerClick(popupElement[i],
                                               popupOverlayPosition)
    /\ lastEvent' = "close"
    /\ UNCHANGED << reports, userLocation, onMapClick, handlerOnMapClick,
                    markersSource, userLocationSource, popupElement, clickLog,
                    viewState, mapRef, mapInstance, thrown, lifetime,
                    authVars, geoVars >>
    /\ effectLog' = NoEffect

Next ==
    \/ \E list \in ReportLists : UpdateReports(list)
    \/ \E location \in UserLocations : UpdateUserLocation(location)
    \/ \E callback \in Callbacks : UpdateOnMapClick(callback)
    \/ \E coordinate \in ClickCoordinates : SingleClick(coordinate)
    \/ CloseClick

Spec == Init /\ [][Next]_vars

(***************************************************************************)
(* The view inputs change: explicit center, selected report, zoom and user *)
(* location, each of which re-runs the animation effect.                   *)
(***************************************************************************)
NextView ==
    \/ \E explicit \in Centers : UpdateCenter(explicit)
    \/ \E selected \in SelectedReports : UpdateSelectedReport(selected)
    \/ \E level \in Zooms : UpdateZoom(level)
    \/ \E location \in UserLocations : UpdateUserLocation(location)

SpecView == Init /\ [][NextView]_vars

(***************************************************************************)
(* Report lists that may hold a report without location.  An exception     *)
(* that escapes an effect ends the component: nothing runs afterwards.     *)
(***************************************************************************)
NextMalformed ==
    /\ ~ thrown
    /\ \/ \E list \in ReportListsWithMalformed : UpdateReports(list)
       \/ \E location \in UserLocations : UpdateUserLocation(location)
       \/ \E coordinate \in ClickCoordinates : SingleClick(coordinate)

SpecMalformed == Init /\ [][NextMalformed]_vars

(***************************************************************************)
(* Clicks whose hit test may return a feature that is no Point.            *)
(***************************************************************************)
NextGeometry ==
    \/ \E list \in ReportLists : UpdateReports(list)
    \/ \E location \in UserLocations : UpdateUserLocation(location)
    \/ \E coordinate \in ClickCoordinates : SingleClick(coordinate)
    \/ \E coordinate \in ClickCoordinates : NonPointClick(coordinate)
    \/ CloseClick

SpecGeometry == Init /\ [][NextGeometry]_vars

(***************************************************************************)
(* Mount.  The component has rendered (lastEvent = "render") with or       *)
(* without a host container in mapRef; Mount runs its four effects in      *)
(* order.  The map effect returns at once without a container, and has no  *)
(* dependencies: a container that is attached later re-runs nothing.       *)
(***************************************************************************)
InitMount ==
    /\ reports \in ReportLists
    /\ userLocation \in UserLocations
    /\ onMapClick \in InitialCallbacks
    /\ handlerOnMapClick = Undefined
    /\ markersSource = << >>
    /\ userLocationSource = << >>
    /\ popupElement = << >>
    /\ popupOverlayPosition = Undefined
    /\ lastEvent = "render"
    /\ clickLog = NoClick
    /\ center = Undefined
    /\ selectedReport = Undefined
    /\ zoom = DefaultZoom
    /\ mapRef \in { Undefined, Container }
    /\ mapInstance = Undefined
    /\ previousCenterRef = Undefined
    /\ animation = Undefined
    /\ effectLog = NoEffect
    /\ thrown = FALSE
    /\ lifetime = NotBuilt
    /\ AuthIdle
    /\ GeoIdle

\* the effects of a mount: of the first render, or replayed by StrictMode
\* after its cleanup; a new map has no animation under way
Mount ==
    /\ lastEvent \in { "render", "cleanup" }
    /\ mapInstance' = InitializeMap(mapRef, center, zoom)
    /\ lifetime' = IF mapRef # Undefined
                   THEN Construct([NotBuilt EXCEPT !.strict = lifetime.strict])
                   ELSE lifetime
    /\ UNCHANGED << authVars, geoVars >>
    /\ handlerOnMapClick' = IF mapRef # Undefined THEN onMapClick
                            ELSE handlerOnMapClick
    /\ markersSource' = IF mapInstance' # Undefined
                        THEN MarkersEffect(markersSource, reports)
                        ELSE markersSource
    /\ thrown' = (mapInstance' # Undefined /\ MarkersEffectThrows(reports))
    /\ userLocationSource' = IF mapInstance' # Undefined
                             THEN UserLocationEffect(userLocationSource,
                                                     userLocation)
                             ELSE userLocationSource
    /\ LET done == AnimationEffect(mapInstance', previousCenterRef, Undefined,
                                   center, selectedReport, userLocation, zoom)
       IN  /\ previousCenterRef' = done.previousCenterRef
           /\ animation' = done.animation
           /\ effectLog' = done.log
    /\ lastEvent' = "mount"
    /\ UNCHANGED << reports, userLocation, onMapClick, popupElement,
                    popupOverlayPosition, clickLog, center, selectedReport,
                    zoom, mapRef >>

\* a later render finds the host container in mapRef.current
AttachContainer ==
    /\ lastEvent # "render"
    /\ mapRef = Undefined
    /\ mapRef' = Container
    /\ lastEvent' = "attach"
    /\ effectLog' = NoEffect
    /\ UNCHANGED << mapVars, viewState, mapInstance, thrown, lifetime,
                    authVars, geoVars >>

NextMount ==
    \/ Mount
    \/ AttachContainer
    \/ /\ lastEvent # "render"
       /\ \/ \E list \in ReportLists : UpdateReports(list)
          \/ \E location \in UserLocations : UpdateUserLocation(location)
          \/ \E explicit \in Centers : UpdateCenter(explicit)

SpecMount == InitMount /\ [][NextMount]_vars

(***************************************************************************)
(* A mounted lifetime.  The host div is rendered unconditionally, so the   *)
(* first render has its container.  The root renders in StrictMode, which  *)
(* may run the cleanup of every effect right after the mount and then the  *)
(* effects again, on the same refs.  The cleanup of the map effect calls   *)
(* map.setTarget(undefined) and nothing else: the refs keep the map, the   *)
(* sources and the overlay.  An unmounted component renders no more, and   *)
(* a map without target receives no browser event.                         *)
(***************************************************************************)
\* the lists of at most one report, and the reports of a list that can be
\* selected
ShortReportLists == { R \in ReportLists : Len(R) <= 1 }

Selectable(list) == { Undefined } \cup { list[i] : i \in 1..Len(list) }

InitLife ==
    /\ reports \in ShortReportLists
    /\ userLocation \in UserLocations
    /\ onMapClick \in InitialCallbacks
    /\ handlerOnMapClick = Undefined
    /\ markersSource = << >>
    /\ userLocationSource = << >>
    /\ popupElement = << >>
    /\ popupOverlayPosition = Undefined
    /\ lastEvent = "render"
    /\ clickLog = NoClick
    /\ center \in Centers
    /\ selectedReport = Undefined
    /\ zoom \in Zooms
    /\ mapRef = Container
    /\ mapInstance = Undefined
    /\ previousCenterRef = Undefined
    /\ animation = Undefined
    /\ effectLog = NoEffect
    /\ thrown = FALSE
    /\ lifetime = NotBuilt
    /\ AuthIdle
    /\ GeoIdle

Mounted == lastEvent \notin { "render", "cleanup", "unmount" }

TornDown == lastEvent \in { "cleanup", "unmount" }

\* return () => { map.setTarget(undefined) }
Cleanup(event) ==
    /\ mapInstance # Undefined
    /\ mapInstance' = setTarget(mapInstance, Undefined)
    /\ lastEvent' = event
    /\ effectLog' = NoEffect
    /\ UNCHANGED << mapVars, viewState, mapRef, thrown, authVars, geoVars >>

Unmount ==
    /\ Mounted
    /\ Cleanup("unmount")
    /\ UNCHANGED lifetime

StrictCleanup ==
    /\ lastEvent = "mount"
    /\ ~ lifetime.strict
    /\ Cleanup("cleanup")
    /\ lifetime' = [lifetime EXCEPT !.strict = TRUE]

NextLife ==
    \/ Mount
    \/ StrictCleanup
    \/ Unmount
    \/ /\ Mounted
       /\ \/ \E list \in ShortReportLists : UpdateReports(list)
          \/ \E location \in UserLocations : UpdateUserLocation(location)
          \/ \E explicit \in Centers : UpdateCenter(explicit)
          \/ \E selected \in Selectable(reports) :
                 UpdateSelectedReport(selected)
          \/ \E level \in Zooms : UpdateZoom(level)
          \/ \E callback \in InitialCallbacks : UpdateOnMapClick(callback)

SpecLife == InitLife /\ [][NextLife]_vars

(***************************************************************************)
(* Teardown among clicks: reports change, the map is clicked, the          *)
(* component unmounts.                                                     *)
(***************************************************************************)
NextTeardown ==
    \/ Unmount
    \/ /\ Mounted
       /\ \/ \E list \in ReportLists : UpdateReports(list)
          \/ \E location \in UserLocations : UpdateUserLocation(location)
          \/ \E coordinate \in ClickCoordinates : SingleClick(coordinate)

SpecTeardown == Init /\ [][NextTeardown]_vars


(***************************************************************************)
(* Authentication.  The auth slice keeps user, token, isAuthenticated,     *)
(* isLoading and error; its reducers also write the item 'auth_token' of   *)
(* localStorage, so a reducer is taken on the pair of both.  null is       *)
(* Undefined; a token and a status code text are records, so that they     *)
(* compare with Undefined.                                                 *)
(***************************************************************************)
Tokens == { [value |-> "t1"], [value |-> "t2"] }

Users == { [id |-> 1] }

Thunks == { "login", "register", "googleSignIn", "getCurrentUser", "logout" }

SignInThunks == { "login", "register", "googleSignIn" }

MaxInflight == 2

Unauthorized == 401

\* a request that got no response: error.response is undefined
NoResponse == 0

Statuses == { 200, Unauthorized, 500, NoResponse }

\* token = localStorage.getItem('auth_token'); isAuthenticated: !!token
initialState(stored) ==
    [user |-> Undefined, token |-> stored, isAuthenticated |-> stored # Undefined,
     isLoading |-> FALSE, error |-> Undefined]

Store == [auth |-> auth, localStorage |-> localStorage]

setItem_lost(storage, token) == storage

setItem(storage, token) == token

removeItem(storage) == Undefined

setCredentials(store, payload) ==
    [auth |-> [store.auth EXCEPT !.user = payload.user,
                                 !.token = payload.token,
                                 !.isAuthenticated = TRUE,
                                 !.error = Undefined],
     localStorage |-> setItem(store.localStorage, payload.token)]

clearCredentials(store) ==
    [auth |-> [store.auth EXCEPT !.user = Undefined,
                                 !.token = Undefined,
                                 !.isAuthenticated = FALSE,
                                 !.error = Undefined],
     localStorage |-> removeItem(store.localStorage)]

clearError(store) == [store EXCEPT !.auth.error = Undefined]

pending(store, thunk) ==
    IF thunk \in SignInThunks
    THEN [store EXCEPT !.auth.isLoading = TRUE, !.auth.error = Undefined]
    ELSE [store EXCEPT !.auth.isLoading = TRUE]

fulfilled(store, thunk, payload) ==
    CASE thunk \in SignInThunks ->
             [auth |-> [store.auth EXCEPT !.isLoading = FALSE,
                                          !.user = payload.user,
                                          !.token = payload.token,
                                          !.isAuthenticated = TRUE,
                                          !.error = Undefined],
              localStorage |-> setItem(store.localStorage, payload.token)]
      [] thunk = "getCurrentUser" ->
             [store EXCEPT !.auth.isLoading = FALSE,
                           !.auth.user = payload,
                           !.auth.isAuthenticated = TRUE]
      [] thunk = "logout" ->
             [auth |-> [store.auth EXCEPT !.isLoading = FALSE,
                                          !.user = Undefined,
                                          !.token = Undefined,
                                          !.isAuthenticated = FALSE,
                                          !.error = Undefined],
              localStorage |-> removeItem(store.localStorage)]

rejected_logoutKeepsSession(store, thunk, payload) ==
    CASE thunk \in SignInThunks ->
             [store EXCEPT !.auth.isLoading = FALSE, !.auth.error = payload]
      [] thunk = "getCurrentUser" ->
             [auth |-> [store.auth EXCEPT !.isLoading = FALSE,
                                          !.isAuthenticated = FALSE,
                                          !.token = Undefined,
                                          !.user = Undefined],
              localStorage |-> removeItem(store.localStorage)]
      [] thunk = "logout" ->
             [store EXCEPT !.auth.isLoading = FALSE]

rejected_getCurrentUserKeepsToken(store, thunk, payload) ==
    CASE thunk \in SignInThunks ->
             [store EXCEPT !.auth.isLoading = FALSE, !.auth.error = payload]
      [] thunk = "getCurrentUser" ->
             [store EXCEPT !.auth.isLoading = FALSE,
                           !.auth.isAuthenticated = FALSE,
                           !.auth.user = Undefined]
      [] thunk = "logout" ->
             [auth |-> [store.auth EXCEPT !.isLoading = FALSE,
                                          !.user = Undefined,
                                          !.token = Undefined,
                                          !.isAuthenticated = FALSE],
              localStorage |-> removeItem(store.localStorage)]

rejected(store, thunk, payload) ==
    CASE thunk \in SignInThunks ->
             [store EXCEPT !.auth.isLoading = FALSE, !.auth.error = payload]
      [] thunk = "getCurrentUser" ->
             [auth |-> [store.auth EXCEPT !.isLoading = FALSE,
                                          !.isAuthenticated = FALSE,
                                          !.token = Undefined,
                                          !.user = Undefined],
              localStorage |-> removeItem(store.localStorage)]
      [] thunk = "logout" ->
             [auth |-> [store.auth EXCEPT !.isLoading = FALSE,
                                          !.user = Undefined,
                                          !.token = Undefined,
                                          !.isAuthenticated = FALSE],
              localStorage |-> removeItem(store.localStorage)]

\* an action of the slice: its name, the thunk of a lifecycle action, payload
Action(name, thunk, payload) ==
    [name |-> name, thunk |-> thunk, payload |-> payload]

ActionType(action) == [name |-> action.name, thunk |-> action.thunk]

authReducer(store, action) ==
    CASE action.name = "setCredentials" -> setCredentials(store, action.payload)
      [] action.name = "clearCredentials" -> clearCredentials(store)
      [] action.name = "clearError" -> clearError(store)
      [] action.name = "pending" -> pending(store, action.thunk)
      [] action.name = "fulfilled" ->
             fulfilled(store, action.thunk, action.payload)
      [] action.name = "rejected" ->
             rejected(store, action.thunk, action.payload)

\* next(action), then the token of the new state is written to localStorage
\* or the item removed; every action here has a type that starts with auth/
authMiddleware(store, action) ==
    LET result == authReducer(store, action) IN
    [result EXCEPT !.localStorage =
         IF result.auth.token # Undefined
         THEN setItem(result.localStorage, result.auth.token)
         ELSE removeItem(result.localStorage)]

dispatch(store, action) == authMiddleware(store, action)

(***************************************************************************)
(* The API client.  The request interceptor reads the token of the store   *)
(* when the request is sent.  The response interceptor dispatches          *)
(* clearCredentials on status 401 and rejects with the normalized error.   *)
(***************************************************************************)
requestInterceptor_bearer(token) ==
    IF token # Undefined
    THEN [scheme |-> "Bearer", credentials |-> token]
    ELSE Undefined

requestInterceptor(token) ==
    IF token # Undefined
    THEN [scheme |-> "Token", credentials |-> token]
    ELSE Undefined

\* the body of an error response, and the message of the axios error
ErrorBody(status) ==
    IF status = NoResponse THEN Undefined ELSE [error |-> "denied"]

AxiosMessage(status) ==
    IF status = NoResponse THEN "Network Error"
    ELSE "Request failed with status code"

\* error.response?.status?.toString()
StatusText(status) ==
    IF status = NoResponse THEN Undefined ELSE [string |-> ToString(status)]

NormalizedError(status) ==
    [message |-> IF ErrorBody(status) # Undefined
                 THEN ErrorBody(status).error
                 ELSE AxiosMessage(status),
     code |-> StatusText(status),
     details |-> ErrorBody(status)]

responseInterceptor_ignores401(store, status) ==
    [store |-> store,
     dispatched |-> << >>,
     rejection |-> NormalizedError(status)]

responseInterceptor(store, status) ==
    [store |-> IF status = Unauthorized
               THEN dispatch(store, Action("clearCredentials", "none", Undefined))
               ELSE store,
     dispatched |-> IF status = Unauthorized
                    THEN << [name |-> "clearCredentials", thunk |-> "none"] >>
                    ELSE << >>,
     rejection |-> NormalizedError(status)]

(***************************************************************************)
(* The auth thunks.  A thunk dispatches pending, sends its request and,    *)
(* when the response has passed the interceptors, dispatches fulfilled     *)
(* with the data or rejected with the message.  getCurrentUser sends       *)
(* nothing without a token.  The rejection of the client has no            *)
(* `response`, so extractErrorMessage yields its message and logout its    *)
(* default text.                                                           *)
(***************************************************************************)
extractErrorMessage(error) == [message |-> error.message]

RejectedPayload(thunk, error) ==
    IF thunk = "logout" THEN [message |-> "Logout failed"]
    ELSE extractErrorMessage(error)

\* response.data of a successful request
ResponseData(thunk, user, token) ==
    CASE thunk \in SignInThunks -> [user |-> user, token |-> token]
      [] thunk = "getCurrentUser" -> user
      [] thunk = "logout" -> Undefined

Remove(sequence, i) ==
    SubSeq(sequence, 1, i - 1) \o SubSeq(sequence, i + 1, Len(sequence))

\* the thunk as dispatched: pending, then the request or the early rejection
Started(store, thunk) ==
    LET loading == dispatch(store, Action("pending", thunk, Undefined)) IN
    IF thunk = "getCurrentUser" /\ loading.auth.token = Undefined
    THEN [store |-> dispatch(loading,
                             Action("rejected", thunk,
                                    extractErrorMessage(
                                        [message |-> "No token available"]))),
          sent |-> FALSE,
          Authorization |-> Undefined,
          dispatched |-> << [name |-> "pending", thunk |-> thunk],
                            [name |-> "rejected", thunk |-> thunk] >>]
    ELSE [store |-> loading,
          sent |-> TRUE,
          Authorization |-> requestInterceptor(loading.auth.token),
          dispatched |-> << [name |-> "pending", thunk |-> thunk] >>]

\* the response of the request, through the interceptor to the thunk
Settled(store, thunk, status, user, token) ==
    IF status = 200
    THEN [store |-> dispatch(store, Action("fulfilled", thunk,
                                          ResponseData(thunk, user, token))),
          dispatched |-> << [name |-> "fulfilled", thunk |-> thunk] >>,
          rejection |-> Undefined]
    ELSE LET intercepted == responseInterceptor(store, status) IN
         [store |-> dispatch(intercepted.store,
                             Action("rejected", thunk,
                                    RejectedPayload(thunk,
                                                    intercepted.rejection))),
          dispatched |-> Append(intercepted.dispatched,
                                [name |-> "rejected", thunk |-> thunk]),
          rejection |-> intercepted.rejection]

StartThunk(thunk, owner) ==
    /\ Len(inflight) < MaxInflight
    /\ LET started == Started(Store, thunk) IN
       /\ auth' = started.store.auth
       /\ localStorage' = started.store.localStorage
       /\ inflight' = IF started.sent
                      THEN Append(inflight,
                                  [thunk |-> thunk, owner |-> owner,
                                   Authorization |-> started.Authorization])
                      ELSE inflight
       /\ authEvent' = [kind |-> "request", thunk |-> thunk, status |-> 0,
                        dispatched |-> started.dispatched,
                        rejection |-> Undefined]

\* the caller dispatches a thunk
Call(thunk) ==
    /\ StartThunk(thunk, "caller")
    /\ UNCHANGED << route, disasterMapVars, geoVars >>

\* the response of request i arrives with a status; the then/catch of the
\* route guard that dispatched the thunk runs after it settled
Response(i, status, user, token) ==
    /\ i \in 1..Len(inflight)
    /\ LET settled == Settled(Store, inflight[i].thunk, status, user, token) IN
       /\ auth' = settled.store.auth
       /\ localStorage' = settled.store.localStorage
       /\ authEvent' = [kind |-> "response", thunk |-> inflight[i].thunk,
                        status |-> status,
                        dispatched |-> settled.dispatched,
                        rejection |-> settled.rejection]
    /\ route' = IF inflight[i].owner = "route"
                THEN [route EXCEPT !.isValidating = FALSE]
                ELSE route
    /\ inflight' = Remove(inflight, i)
    /\ UNCHANGED << disasterMapVars, geoVars >>

\* an action creator of the slice dispatched by itself
Dispatch(action) ==
    /\ auth' = dispatch(Store, action).auth
    /\ localStorage' = dispatch(Store, action).localStorage
    /\ authEvent' = [kind |-> "dispatch", thunk |-> "none", status |-> 0,
                     dispatched |-> << ActionType(action) >>,
                     rejection |-> Undefined]
    /\ UNCHANGED << inflight, route, disasterMapVars, geoVars >>

\* the map component before its first render, while the session is followed
MapIdle ==
    /\ reports = << >>
    /\ userLocation = Undefined
    /\ onMapClick = Undefined
    /\ handlerOnMapClick = Undefined
    /\ markersSource = << >>
    /\ userLocationSource = << >>
    /\ popupElement = << >>
    /\ popupOverlayPosition = Undefined
    /\ lastEvent = "render"
    /\ clickLog = NoClick
    /\ center = Undefined
    /\ selectedReport = Undefined
    /\ zoom = DefaultZoom
    /\ mapRef = Container
    /\ mapInstance = Undefined
    /\ previousCenterRef = Undefined
    /\ animation = Undefined
    /\ effectLog = NoEffect
    /\ thrown = FALSE
    /\ lifetime = NotBuilt

\* app load: the slice reads the item of localStorage
InitAuth ==
    /\ MapIdle
    /\ GeoIdle
    /\ localStorage \in { Undefined } \cup Tokens
    /\ auth = initialState(localStorage)
    /\ inflight = << >>
    /\ route = NoRoute
    /\ authEvent = NoAuthEvent

NextAuth ==
    \/ \E thunk \in Thunks : Call(thunk)
    \/ \E i \in 1..MaxInflight, status \in Statuses, user \in Users,
          token \in Tokens : Response(i, status, user, token)
    \/ \E user \in Users, token \in Tokens :
           Dispatch(Action("setCredentials", "none",
                           [user |-> user, token |-> token]))
    \/ Dispatch(Action("clearError", "none", Undefined))

SpecAuth == InitAuth /\ [][NextAuth]_vars


(***************************************************************************)
(* The route guard.  Three versions of ProtectedRoute exist: the one that  *)
(* tests the token only ("basic", whose effect is also the effect of App), *)
(* the one with hasCheckedToken and the one with isValidating.  A render   *)
(* returns its output from the state it was called with; its effect runs   *)
(* after every render, since getCurrentUser of useAuth is a new function   *)
(* each time, and the state it sets shows in the next render.  A guard     *)
(* that rendered the redirect is unmounted by the navigation.              *)
(***************************************************************************)
RouteVariants == { "basic", "hasCheckedToken", "isValidating" }

Output(variant, local, state) ==
    CASE variant = "basic" ->
             IF state.token = Undefined THEN "redirect" ELSE "children"
      [] variant = "hasCheckedToken" ->
             IF (state.isLoading \/ local.isValidating)
                /\ ~ local.hasCheckedToken
             THEN "loading"
             ELSE IF local.hasCheckedToken
                     /\ (state.token = Undefined \/ ~ state.isAuthenticated)
             THEN "redirect"
             ELSE "children"
      [] variant = "isValidating" ->
             IF state.isLoading \/ local.isValidating THEN "loading"
             ELSE IF state.token = Undefined \/ ~ state.isAuthenticated
             THEN "redirect"
             ELSE "children"

RouteEffect(variant, local, state) ==
    LET same == [hasCheckedToken |-> local.hasCheckedToken,
                 isValidating |-> local.isValidating, fetch |-> FALSE]
    IN
    CASE variant = "basic" ->
             [same EXCEPT !.fetch = state.token # Undefined
                                    /\ ~ state.isAuthenticated]
      [] variant = "hasCheckedToken" ->
             IF /\ state.token # Undefined
                /\ state.isAuthenticated
                /\ state.user = Undefined
                /\ ~ state.isLoading
                /\ ~ local.isValidating
                /\ ~ local.hasCheckedToken
             THEN [hasCheckedToken |-> TRUE, isValidating |-> TRUE,
                   fetch |-> TRUE]
             ELSE IF state.token = Undefined
             THEN [same EXCEPT !.hasCheckedToken = TRUE]
             ELSE IF state.user # Undefined \/ state.isAuthenticated
             THEN [same EXCEPT !.hasCheckedToken = TRUE]
             ELSE same
      [] variant = "isValidating" ->
             IF /\ state.token # Undefined
                /\ ~ state.isAuthenticated
                /\ ~ state.isLoading
             THEN [same EXCEPT !.isValidating = TRUE, !.fetch = TRUE]
             ELSE same

\* one render of the mounted guard and the effect that follows it
Render ==
    /\ route.variant # "none"
    /\ route.output # "redirect"
    /\ LET effect == RouteEffect(route.variant, route, auth) IN
       /\ route' = [variant |-> route.variant,
                    hasCheckedToken |-> effect.hasCheckedToken,
                    isValidating |-> effect.isValidating,
                    output |-> Output(route.variant, route, auth),
                    token |-> auth.token,
                    isAuthenticated |-> auth.isAuthenticated]
       /\ route' # route \/ effect.fetch
       /\ IF effect.fetch
          THEN StartThunk("getCurrentUser", "route")
          ELSE /\ UNCHANGED << auth, localStorage, inflight >>
               /\ authEvent' = [kind |-> "render", thunk |-> "none",
                                status |-> 0, dispatched |-> << >>,
                                rejection |-> Undefined]
    /\ UNCHANGED << disasterMapVars, geoVars >>

\* app load with the guard on the route shown
InitRoute ==
    /\ MapIdle
    /\ GeoIdle
    /\ localStorage \in { Undefined } \cup Tokens
    /\ auth = initialState(localStorage)
    /\ inflight = << >>
    /\ route \in { [NoRoute EXCEPT !.variant = variant] :
                     variant \in RouteVariants }
    /\ authEvent = NoAuthEvent

Arrives ==
    \E i \in 1..MaxInflight, status \in Statuses, user \in Users,
       token \in Tokens : Response(i, status, user, token)

NextRoute ==
    \/ Render
    \/ Arrives
    \/ \E thunk \in { "login", "logout" } : Call(thunk)

SpecRoute == InitRoute /\ [][NextRoute]_vars

\* renders happen and responses arrive; the caller need not act
SpecRouteFair == SpecRoute /\ WF_vars(Render) /\ WF_vars(Arrives)


(***************************************************************************)
(* Vocabulary of the properties.                                           *)
(***************************************************************************)
Projection(location) == [x |-> location.lng * XScale, y |-> MercY(location.lat)]

ListedReports == { reports[i] : i \in 1..Len(reports) }

ContentFor(feature) ==
    IF Has(feature, "reportData")
    THEN ReportPopupContent(feature.properties.reportData)
    ELSE UserPopupContent(toLonLat(feature.geometry.coordinates))

StateFor(feature) ==
    IF Has(feature, "reportData")
    THEN [state |-> "ShownForReport",
          reportId |-> feature.properties.reportData.id]
    ELSE [state |-> "ShownForUserLocation"]

ClickHit == lastEvent = "click" /\ clickLog.feature # Undefined

ClickMissed == lastEvent = "click" /\ clickLog.feature = Undefined

(***************************************************************************)
(* C1.  After every marker synchronization pass the marker layer holds     *)
(* exactly one feature per report of the list just passed, tagged with     *)
(* that report and placed at the projection of its location; nothing of an *)
(* earlier pass remains.                                                   *)
(***************************************************************************)
C1_MarkersMirrorReports ==
    lastEvent = "reports" =>
        /\ Len(markersSource) = Len(reports)
        /\ \A i \in 1..Len(reports) :
               /\ Has(markersSource[i], "reportData")
               /\ markersSource[i].properties.reportData = reports[i]
               /\ markersSource[i].geometry.coordinates
                      = Projection(reports[i].location)

\* a pass with two reports after an earlier pass whose feature (the one
\* clicked before) is on the list no longer
C1_Witness ==
    /\ lastEvent = "reports"
    /\ Len(reports) = 2
    /\ Has(clickLog.feature, "reportData")
    /\ clickLog.feature.properties.reportData \notin ListedReports

(***************************************************************************)
(* C2.  After every user-location pass the user-location layer holds       *)
(* exactly one feature, tagged as the user and at the projected location,  *)
(* when userLocation is non-null, and none when it is null.                *)
(***************************************************************************)
C2_UserLayerMatchesUserLocation ==
    lastEvent = "userLocation" =>
        IF userLocation # Undefined
        THEN /\ Len(userLocationSource) = 1
             /\ Has(userLocationSource[1], "isUserLocation")
             /\ userLocationSource[1].geometry.coordinates
                    = Projection(userLocation)
        ELSE Len(userLocationSource) = 0

\* a non-null location replaces an earlier, different non-null location
C2_Witness ==
    /\ lastEvent = "userLocation"
    /\ userLocation # Undefined
    /\ Has(clickLog.feature, "isUserLocation")
    /\ clickLog.feature.geometry.coordinates # Projection(userLocation)

(***************************************************************************)
(* C3.  A click whose hit test returns a report feature leaves the popup   *)
(* in ShownForReport(id of that report), its content built from that       *)
(* report, the overlay at that feature's coordinate, whatever the popup    *)
(* showed before; onMapClick is not invoked.                               *)
(***************************************************************************)
C3_ReportClickShowsReport ==
    (lastEvent = "click" /\ Has(clickLog.feature, "reportData")) =>
        LET reportData == clickLog.feature.properties.reportData IN
        /\ PopupState = [state |-> "ShownForReport", reportId |-> reportData.id]
        /\ Len(popupElement) = 1
        /\ popupElement[1].emoji = getDisasterEmoji(reportData.type)
        /\ popupElement[1].name = getDisasterDisplayName(reportData.type)
        /\ popupElement[1].status = reportData.status
        /\ popupElement[1].description = reportData.description
        /\ popupElement[1].coordinates = << toFixed4(reportData.location.lat),
                                            toFixed4(reportData.location.lng) >>
        /\ popupOverlayPosition = Projection(reportData.location)
        /\ clickLog.calls = << >>

\* a report is clicked while the user-location popup is shown and a
\* callback is in place
C3_Witness ==
    /\ lastEvent = "click"
    /\ Has(clickLog.feature, "reportData")
    /\ clickLog.before.state = "ShownForUserLocation"
    /\ handlerOnMapClick # Undefined
    /\ onMapClick # Undefined

(***************************************************************************)
(* C4.  A click whose hit test returns the user-location feature leaves    *)
(* the popup in ShownForUserLocation with the overlay at the user point,   *)
(* whatever the popup showed before; onMapClick is not invoked.            *)
(***************************************************************************)
C4_UserClickShowsUserLocation ==
    (lastEvent = "click" /\ Has(clickLog.feature, "isUserLocation")) =>
        /\ PopupState = [state |-> "ShownForUserLocation"]
        /\ popupOverlayPosition = Projection(userLocation)
        /\ popupElement[1].coordinates = << toFixed4(userLocation.lat),
                                            toFixed4(userLocation.lng) >>
        /\ clickLog.calls = << >>

\* the user dot is clicked, away from every marker, while a report popup is
\* shown
C4_Witness ==
    /\ lastEvent = "click"
    /\ Has(clickLog.feature, "isUserLocation")
    /\ FeaturesAt(markersSource, clickLog.coordinate) = {}
    /\ clickLog.before.state = "ShownForReport"
    /\ handlerOnMapClick # Undefined

(***************************************************************************)
(* C5.  A click that hits no feature invokes onMapClick exactly once, when *)
(* a callback is registered, with the inverse projection of the clicked    *)
(* position, and leaves the popup Hidden.                                  *)
(***************************************************************************)
C5_MissInvokesRegisteredCallback ==
    ClickMissed =>
        /\ PopupState = [state |-> "Hidden"]
        /\ onMapClick # Undefined =>
               /\ Len(clickLog.calls) = 1
               /\ Projection(clickLog.calls[1].arg) = clickLog.coordinate

(***************************************************************************)
(* C6.  As claimed: where a report marker and the user-location feature    *)
(* both contain the clicked pixel, the click resolves to the report        *)
(* feature and the popup becomes ShownForReport.                           *)
(***************************************************************************)
BothLayersHit ==
    /\ lastEvent = "click"
    /\ FeaturesAt(markersSource, clickLog.coordinate) # {}
    /\ FeaturesAt(userLocationSource, clickLog.coordinate) # {}

C6_MarkerLayerPrecedence ==
    BothLayersHit =>
        /\ Has(clickLog.feature, "reportData")
        /\ PopupState.state = "ShownForReport"

(***************************************************************************)
(* C6, amended.  The user-location layer, the topmost of the layer stack,  *)
(* has precedence: where both a report marker and the user-location        *)
(* feature contain the clicked pixel, the click resolves to the            *)
(* user-location feature and the popup becomes ShownForUserLocation.       *)
(***************************************************************************)
C6_UserLayerPrecedence ==
    BothLayersHit =>
        /\ Has(clickLog.feature, "isUserLocation")
        /\ PopupState = [state |-> "ShownForUserLocation"]

C6_Witness ==
    /\ BothLayersHit
    /\ clickLog.before.state = "ShownForReport"

(***************************************************************************)
(* C7.  Per click at most one of the three outcomes (report popup, user    *)
(* popup, miss handling) occurs; onMapClick is invoked at most once, and   *)
(* never by a click that hit a feature.                                    *)
(***************************************************************************)
C7_OneBranchPerClick ==
    lastEvent = "click" =>
        /\ Cardinality(clickLog.branches) <= 1
        /\ Len(clickLog.calls) <= 1
        /\ clickLog.feature # Undefined =>
               /\ clickLog.calls = << >>
               /\ "miss" \notin clickLog.branches
               /\ popupOverlayPosition # Undefined

\* a marker is hit while a callback is in place
C7_Witness ==
    /\ ClickHit
    /\ clickLog.branches = { "report" }
    /\ handlerOnMapClick # Undefined

(***************************************************************************)
(* C8.  Whenever the overlay has a position, the popup content is the      *)
(* content rendered for the feature the most recent hit test returned and  *)
(* the position is that feature's coordinate.                              *)
(***************************************************************************)
C8_ContentAndPositionOfLastHit ==
    popupOverlayPosition # Undefined =>
        /\ clickLog.feature # Undefined
        /\ popupElement = << ContentFor(clickLog.feature) >>
        /\ popupOverlayPosition = clickLog.feature.geometry.coordinates

\* the user popup, opened over an earlier report popup, is still shown
\* after a pass changed the user location
C8_Witness ==
    /\ popupOverlayPosition # Undefined
    /\ lastEvent = "userLocation"
    /\ Has(clickLog.feature, "isUserLocation")
    /\ clickLog.before.state = "ShownForReport"

(***************************************************************************)
(* C9.  There is one popup with one variant: the popup element holds at    *)
(* most one content node, and a click on a feature while the popup is      *)
(* shown replaces content and position by those of the clicked feature.    *)
(***************************************************************************)
C9_PopupReplacedNotStacked ==
    /\ Len(popupElement) <= 1
    /\ (ClickHit /\ clickLog.before.state # "Hidden") =>
           /\ popupElement = << ContentFor(clickLog.feature) >>
           /\ popupOverlayPosition = clickLog.feature.geometry.coordinates
           /\ PopupState = StateFor(clickLog.feature)

\* the popup of report 1 is replaced by the popup of report 2
C9_Witness ==
    /\ ClickHit
    /\ clickLog.before = [state |-> "ShownForReport", reportId |-> 1]
    /\ PopupState = [state |-> "ShownForReport", reportId |-> 2]

(***************************************************************************)
(* C10.  Activating the close control hides the popup from both shown      *)
(* states: after a close action the overlay has no position.               *)
(***************************************************************************)
C10_CloseHides ==
    lastEvent = "close" => popupOverlayPosition = Undefined


(***************************************************************************)
(* C11.  As claimed: hiding clears the popup content, so in every state    *)
(* where the popup is Hidden after having been shown (by the close         *)
(* control or by a click that missed) the popup element holds no content.  *)
(***************************************************************************)
HiddenAfterShown ==
    /\ popupOverlayPosition = Undefined
    /\ \/ lastEvent = "close"
       \/ ClickMissed /\ clickLog.before.state # "Hidden"

C11_HideClearsContent == HiddenAfterShown => popupElement = << >>

(***************************************************************************)
(* C11, amended.  Hiding removes the overlay position only: in every state *)
(* where the popup is Hidden after having been shown, the popup element    *)
(* still holds the one content node of the popup shown last.               *)
(***************************************************************************)
C11_HideKeepsContent ==
    /\ (lastEvent = "close" /\ popupOverlayPosition = Undefined) =>
           popupElement = << ContentFor(clickLog.feature) >>
    /\ (ClickMissed /\ clickLog.before.state # "Hidden") =>
           /\ popupOverlayPosition = Undefined
           /\ Len(popupElement) = 1
           /\ clickLog.before.state = "ShownForReport" =>
                  /\ popupElement[1].kind = "report"
                  /\ popupElement[1].reportId = clickLog.before.reportId
           /\ clickLog.before.state = "ShownForUserLocation" =>
                  popupElement[1].kind = "user"

\* a click on the empty map hides the popup of a report
C11_Witness ==
    /\ ClickMissed
    /\ clickLog.before.state = "ShownForReport"
    /\ popupOverlayPosition = Undefined


(***************************************************************************)
(* Vocabulary of the view properties.                                      *)
(***************************************************************************)
ViewEvent == lastEvent \in { "center", "selectedReport", "zoom", "userLocation" }

SameLatLng(a, b) == a # Undefined /\ b # Undefined /\ a.lat = b.lat /\ a.lng = b.lng

AnimateCall(location, level) ==
    [center |-> Projection(location), zoom |-> level,
     duration |-> AnimationDuration]

(***************************************************************************)
(* C12.  The resolved view target is the first present of explicit center, *)
(* selectedReport.location and userLocation, and None exactly when all     *)
(* three are absent.                                                       *)
(***************************************************************************)
C12_TargetIsFirstPresent ==
    ViewEvent =>
        /\ center # Undefined => effectLog.target = center
        /\ (center = Undefined /\ selectedReport # Undefined) =>
               effectLog.target = selectedReport.location
        /\ (center = Undefined /\ selectedReport = Undefined) =>
               effectLog.target = userLocation
        /\ effectLog.target = Undefined <=>
               (center = Undefined /\ selectedReport = Undefined
                /\ userLocation = Undefined)

\* a selected report wins over a user location elsewhere
C12_Witness ==
    /\ ViewEvent
    /\ center = Undefined
    /\ selectedReport # Undefined
    /\ userLocation # Undefined
    /\ selectedReport.location # userLocation

(***************************************************************************)
(* C13.  An update starts at most one animation, and starts one exactly    *)
(* when its resolved target is present and differs in lat or lng from the  *)
(* previously applied target (or none was applied yet): updates that       *)
(* resolve to the same lat/lng again, through whatever source or with only *)
(* the zoom changed, start none.                                           *)
(***************************************************************************)
C13_AnimateOnlyOnChangedTarget ==
    ViewEvent =>
        /\ effectLog.started \in { 0, 1 }
        /\ effectLog.started = 1 <=>
               /\ effectLog.target # Undefined
               /\ ~ SameLatLng(effectLog.before, effectLog.target)

\* only the zoom changed: no animation
C13_Witness ==
    /\ lastEvent = "zoom"
    /\ effectLog.target # Undefined
    /\ effectLog.started = 0

(***************************************************************************)
(* C14.  As claimed: whenever selectedReport is set to a report, with no   *)
(* explicit center, the camera is animated to that report's location at    *)
(* zoom 15, whatever the state before: the animation issued last goes      *)
(* there at zoom 15.                                                       *)
(***************************************************************************)
ReportSelected ==
    /\ lastEvent = "selectedReport"
    /\ selectedReport # Undefined
    /\ center = Undefined

C14_SelectedReportAnimatesAt15 ==
    ReportSelected =>
        animation = AnimateCall(selectedReport.location, FocusedZoom)

(***************************************************************************)
(* C14, amended.  When selectedReport is set to a report, with no explicit *)
(* center, an animation to the report's location at zoom 15 starts if that *)
(* location differs in lat or lng from the previously applied target; if   *)
(* it equals it (e.g. the user location applied at the default zoom) no    *)
(* animation starts and the camera keeps the animation issued before.      *)
(***************************************************************************)
C14_SelectedReportAnimatesUnlessSameTarget ==
    ReportSelected =>
        IF SameLatLng(effectLog.before, selectedReport.location)
        THEN /\ effectLog.started = 0
             /\ animation # Undefined
             /\ animation.center = Projection(selectedReport.location)
        ELSE /\ effectLog.started = 1
             /\ animation = AnimateCall(selectedReport.location, FocusedZoom)

\* the report selected lies where the user location, applied at the default
\* zoom, is: the camera stays at the default zoom
C14_Witness ==
    /\ ReportSelected
    /\ selectedReport.location = userLocation
    /\ effectLog.started = 0
    /\ animation = AnimateCall(userLocation, DefaultZoom)

(***************************************************************************)
(* C15.  An animation that starts goes to the resolved target, lasts       *)
(* 1000 ms and uses zoom 15 if an explicit center or a selected report is  *)
(* present at that update, the caller's zoom otherwise.                    *)
(***************************************************************************)
C15_AnimationZoomAndDestination ==
    (ViewEvent /\ effectLog.started = 1) =>
        animation = AnimateCall(effectLog.target,
                                IF center # Undefined \/ selectedReport # Undefined
                                THEN FocusedZoom ELSE zoom)

\* the user location alone drives the target, at a zoom the caller chose
C15_Witness ==
    /\ ViewEvent
    /\ effectLog.started = 1
    /\ center = Undefined
    /\ selectedReport = Undefined
    /\ zoom # DefaultZoom

(***************************************************************************)
(* C16.  An update that resolves to no target starts no animation and      *)
(* leaves the last-applied target as it was; the last-applied target is    *)
(* always the destination of the animation issued last.                    *)
(***************************************************************************)
C16_NoneKeepsLastApplied ==
    /\ (ViewEvent /\ effectLog.target = Undefined) =>
           /\ effectLog.started = 0
           /\ previousCenterRef = effectLog.before
    /\ previousCenterRef = Undefined <=> animation = Undefined
    /\ previousCenterRef # Undefined =>
           animation.center = Projection(previousCenterRef)

\* target A, then no target: A stays the last-applied target
C16_Witness ==
    /\ ViewEvent
    /\ effectLog.target = Undefined
    /\ previousCenterRef # Undefined


(***************************************************************************)
(* C17.  A click that misses all features invokes the onMapClick of the    *)
(* most recent render: a callback supplied or replaced after the map was   *)
(* constructed is the one later miss clicks invoke.                        *)
(***************************************************************************)
C17_MissInvokesCurrentCallback ==
    ClickMissed =>
        /\ onMapClick # Undefined => Len(clickLog.calls) = 1
        /\ \A i \in 1..Len(clickLog.calls) : clickLog.calls[i].fn = onMapClick

(***************************************************************************)
(* C18.  A report with missing coordinates is left out of the pass: the    *)
(* pass raises nothing and the marker layer holds one feature for every    *)
(* other report of the list.                                               *)
(***************************************************************************)
WellFormedReports == SelectSeq(reports, LAMBDA report : ~ Throws(report))

C18_MalformedReportExcluded ==
    lastEvent = "reports" =>
        /\ ~ thrown
        /\ Len(markersSource) = Len(WellFormedReports)
        /\ \A i \in 1..Len(WellFormedReports) :
               markersSource[i].properties.reportData = WellFormedReports[i]

(***************************************************************************)
(* C19.  As claimed: a click whose hit test returns a feature that is no   *)
(* Point has the outcome of a click that missed: the callback of the       *)
(* listener is invoked, if there is one, and the popup is Hidden.          *)
(***************************************************************************)
NonPointHit ==
    /\ ClickHit
    /\ clickLog.feature.geometry.type # "Point"

C21_ConstructedOncePerLifetime ==
    Mounted =>
        /\ lifetime.map = 1
        /\ lifetime.markersSource = 1
        /\ lifetime.userLocationSource = 1
        /\ lifetime.popupOverlay = 1
        /\ mapInstance # Undefined

C21_Witness ==
    /\ lastEvent = "onMapClick"
    /\ reports # << >>
    /\ userLocation # Undefined
    /\ center # Undefined
    /\ selectedReport # Undefined
    /\ zoom # DefaultZoom
    /\ lifetime.strict
    /\ lifetime.map = 1

(***************************************************************************)
(* C22.  After teardown the map is detached from its host, the references  *)
(* to the map and its sources are dropped, and nothing acts on the         *)
(* torn-down map: no click is handled, no effect runs on it.               *)
(***************************************************************************)
Detached == mapInstance = Undefined \/ mapInstance.target = Undefined

ReferencesDropped ==
    /\ mapInstance = Undefined
    /\ markersSource = << >>
    /\ userLocationSource = << >>

\* the one step after a teardown: StrictMode replays the effects, which
\* construct another map
OnlyReplay ==
    TornDown => /\ lastEvent = "cleanup"
                /\ lastEvent' = "mount"
                /\ mapInstance'.target = mapRef

C22_TeardownDetachesAndReleases ==
    /\ [](TornDown => Detached /\ ReferencesDropped)
    /\ [][OnlyReplay]_vars

(***************************************************************************)
(* C22, as the code has it.  The teardown detaches the map from its host   *)
(* and clears no reference: the refs still hold the map and the sources    *)
(* with their features.  Nothing acts on the torn-down map afterwards.     *)
(***************************************************************************)
ReferencesKept ==
    /\ mapInstance # Undefined
    /\ markersSource = MarkersEffect(<< >>, reports)
    /\ userLocationSource = UserLocationEffect(<< >>, userLocation)

C22_TeardownDetachesOnly ==
    /\ [](TornDown => Detached /\ ReferencesKept)
    /\ [][OnlyReplay]_vars

C22_Witness ==
    /\ lastEvent = "unmount"
    /\ markersSource # << >>
    /\ userLocationSource # << >>
    /\ clickLog # NoClick
    /\ mapInstance.target = Undefined

(***************************************************************************)
(* C23.  The view of a new map is centred on the explicit centre whenever  *)
(* one is given, whatever its coordinates, and on the fallback coordinate  *)
(* otherwise; its zoom is the zoom given.                                  *)
(***************************************************************************)
C23_InitialCameraFromInputs ==
    lastEvent = "mount" =>
        mapInstance.view =
            [center |-> IF center # Undefined
                        THEN Projection(center)
                        ELSE Projection([lat |-> FallbackLat,
                                         lng |-> FallbackLng]),
             zoom |-> zoom]

(***************************************************************************)
(* C24.  Each synchronization pass is idempotent: run once more with the   *)
(* input it ran with, it yields the feature set it yielded, and so for     *)
(* any input from the source as it stands.                                 *)
(***************************************************************************)
C24_SyncIdempotent ==
    /\ MarkersEffect(markersSource, reports) = markersSource
    /\ UserLocationEffect(userLocationSource, userLocation) = userLocationSource
    /\ \A list \in ReportLists :
           MarkersEffect(MarkersEffect(markersSource, list), list)
               = MarkersEffect(markersSource, list)
    /\ \A location \in UserLocations :
           UserLocationEffect(UserLocationEffect(userLocationSource, location),
                              location)
               = UserLocationEffect(userLocationSource, location)

C24_Witness ==
    /\ lastEvent = "reports"
    /\ Len(markersSource) = MaxReports
    /\ userLocationSource # << >>


(***************************************************************************)
(* C25.  After every auth action the item 'auth_token' of localStorage     *)
(* equals the token of the store, and is absent exactly when the token is  *)
(* null.                                                                   *)
(***************************************************************************)
C25_TokenSynced ==
    /\ localStorage = auth.token
    /\ localStorage = Undefined <=> auth.token = Undefined

C25_Witness ==
    /\ authEvent.kind = "response"
    /\ authEvent.thunk = "login"
    /\ authEvent.status = 200
    /\ localStorage \in Tokens
    /\ inflight # << >>

(***************************************************************************)
(* C26.  A request is sent with the header Authorization: Token t for the  *)
(* token t the store holds when it is sent, and with no Authorization      *)
(* header when the store holds none.                                       *)
(***************************************************************************)
RequestSent == authEvent.kind = "request" /\ Len(authEvent.dispatched) = 1

C26_RequestCarriesCurrentToken ==
    RequestSent =>
        LET request == inflight[Len(inflight)] IN
        IF auth.token = Undefined
        THEN request.Authorization = Undefined
        ELSE request.Authorization
                 = [scheme |-> "Token", credentials |-> auth.token]

\* a request sent after the token was cleared, while an earlier one that
\* carries the old token is still under way
C26_Witness ==
    /\ RequestSent
    /\ Len(inflight) = 2
    /\ inflight[1].Authorization # Undefined
    /\ inflight[2].Authorization = Undefined
    /\ auth.token = Undefined

(***************************************************************************)
(* C27.  The app loaded with a token in localStorage fetches the current   *)
(* user by itself: in the end the user is known or the credentials are     *)
(* cleared.                                                                *)
(***************************************************************************)
LoadedWithToken ==
    /\ authEvent.kind = "load"
    /\ route.variant = "basic"
    /\ localStorage # Undefined

C27_UserFetchedOnLoad ==
    LoadedWithToken ~> (auth.user # Undefined \/ auth.token = Undefined)

(***************************************************************************)
(* C28.  No render of the route guard returns the children while the       *)
(* token is null or, in the versions that validate, while isAuthenticated  *)
(* is false.                                                               *)
(***************************************************************************)
C28_ChildrenOnlyWhenAuthenticated ==
    route.output = "children" =>
        /\ route.token # Undefined
        /\ route.variant \in { "hasCheckedToken", "isValidating" } =>
               route.isAuthenticated

(***************************************************************************)
(* C29.  When the logout thunk has settled, fulfilled or rejected, the     *)
(* session is over: no user, no token, not authenticated, not loading, no  *)
(* item in localStorage.                                                   *)
(***************************************************************************)
SessionOver ==
    /\ auth.user = Undefined
    /\ auth.token = Undefined
    /\ ~ auth.isAuthenticated
    /\ localStorage = Undefined

C29_LogoutEndsSession ==
    (authEvent.kind = "response" /\ authEvent.thunk = "logout") =>
        SessionOver /\ ~ auth.isLoading

C29_Witness ==
    /\ authEvent.kind = "response"
    /\ authEvent.thunk = "logout"
    /\ authEvent.status = 500
    /\ inflight # << >>
    /\ inflight[1].Authorization # Undefined

(***************************************************************************)
(* C30.  A response with status 401 clears the auth state and the request  *)
(* rejects with the normalized error; a response with another error status *)
(* leaves user, token and isAuthenticated as they were.                    *)
(***************************************************************************)
ErrorResponse ==
    authEvent.kind = "response" /\ authEvent.status \notin { 200, NoResponse }

Normalized(error) ==
    /\ DOMAIN error = { "message", "code", "details" }
    /\ error.code = StatusText(authEvent.status)

UnauthorizedClears ==
    (ErrorResponse /\ authEvent.status = Unauthorized) =>
        /\ SessionOver
        /\ Normalized(authEvent.rejection)

SessionKept ==
    /\ auth'.user = auth.user
    /\ auth'.token = auth.token
    /\ auth'.isAuthenticated = auth.isAuthenticated

C30_OtherStatusLeavesSession ==
    /\ [] UnauthorizedClears
    /\ [][(ErrorResponse /\ authEvent.status # Unauthorized)' => SessionKept]_vars

(***************************************************************************)
(* C30, as the code has it.  With another error status the interceptor     *)
(* dispatches nothing and the request rejects with the normalized error;   *)
(* the session is kept when the request was a sign-in, and the rejected    *)
(* getCurrentUser or logout ends it.                                       *)
(***************************************************************************)
OtherStatusPassesThrough ==
    (ErrorResponse /\ authEvent.status # Unauthorized) =>
        /\ authEvent.dispatched
               = << [name |-> "rejected", thunk |-> authEvent.thunk] >>
        /\ Normalized(authEvent.rejection)
        /\ authEvent.thunk \notin SignInThunks => SessionOver

C30_InterceptorClearsOn401Only ==
    /\ [] (UnauthorizedClears /\ OtherStatusPassesThrough)
    /\ [][(/\ ErrorResponse
           /\ authEvent.status # Unauthorized
           /\ authEvent.thunk \in SignInThunks)' => SessionKept]_vars

C30_Witness ==
    /\ ErrorResponse
    /\ authEvent.status = 500
    /\ authEvent.thunk = "getCurrentUser"
    /\ authEvent.rejection.message = "denied"
    /\ inflight # << >>
    /\ inflight[1].Authorization # Undefined
    /\ SessionOver


(***************************************************************************)
(* useGeolocation (hooks/geolocation/useGeolocation.ts).                   *)
(*                                                                         *)
(* geolocationState is React's state of the hook with every queued updater *)
(* applied; each updater returns a new object, so every setState schedules *)
(* a render.  mergedOptions is a new object in every render, so            *)
(* getCurrentPosition (useCallback on [mergedOptions]) is a new function   *)
(* in every render and both effects, which depend on it, are cleaned up    *)
(* and run again after every render.                                       *)
(***************************************************************************)
MaxOutstanding == 2
MaxQueries == 3

InitialDelay == 300
RetryDelay == 500

PermissionStates == { "granted", "denied", "prompt" }

ErrorCodes == { "PERMISSION_DENIED", "POSITION_UNAVAILABLE", "TIMEOUT" }

\* the fix the browser delivers
Position == [lat |-> 1, lng |-> 1]

ErrorMessage(text) == [message |-> text]

setState(previous, field, value) == [previous EXCEPT ![field] = value]

\* clearTimeout(timer): the timer is disarmed
clearTimeout(armed) == Undefined

\* cleanup that leaves the timer of the previous run armed
AutoRequestCleanup_keepsTimer(armed) == armed

\* the cleanup the auto-request effect returns
AutoRequestCleanup(armed) == clearTimeout(armed)

\* an auto-request effect that retries whatever retryAttemptedRef holds
AutoRequestEffect_retriesAgain(rendered, hasRequested, retryAttempted) ==
    LET wanted == /\ rendered.permission = "granted"
                  /\ rendered.location = Undefined
                  /\ ~ rendered.loading
    IN  IF wanted /\ ~ hasRequested
        THEN [hasRequested |-> TRUE, retryAttempted |-> retryAttempted,
              timer |-> [delay |-> InitialDelay], setState |-> TRUE]
        ELSE IF wanted /\ hasRequested
        THEN [hasRequested |-> hasRequested, retryAttempted |-> TRUE,
              timer |-> [delay |-> RetryDelay], setState |-> TRUE]
        ELSE [hasRequested |-> hasRequested,
              retryAttempted |-> IF rendered.location # Undefined
                                 THEN FALSE
                                 ELSE retryAttempted,
              timer |-> Undefined, setState |-> FALSE]

(***************************************************************************)
(* The auto-request effect on the state of the render: what it leaves in   *)
(* the refs, the timer it arms and whether it calls setState.              *)
(***************************************************************************)
AutoRequestEffect(rendered, hasRequested, retryAttempted) ==
    LET wanted == /\ rendered.permission = "granted"
                  /\ rendered.location = Undefined
                  /\ ~ rendered.loading
    IN  IF wanted /\ ~ hasRequested
        THEN [hasRequested |-> TRUE, retryAttempted |-> retryAttempted,
              timer |-> [delay |-> InitialDelay], setState |-> TRUE]
        ELSE IF wanted /\ ~ retryAttempted /\ hasRequested
        THEN [hasRequested |-> hasRequested, retryAttempted |-> TRUE,
              timer |-> [delay |-> RetryDelay], setState |-> TRUE]
        ELSE [hasRequested |-> hasRequested,
              retryAttempted |-> IF rendered.location # Undefined
                                 THEN FALSE
                                 ELSE retryAttempted,
              timer |-> Undefined, setState |-> FALSE]

\* the queries of a run of the permission effect added to those pending; the
\* listener query of the run before belongs to a run that was cleaned up
PermissionEffect(unresolved) ==
    [checkPermission |-> unresolved.checkPermission + 1,
     effect |-> 1,
     stale |-> unresolved.stale + unresolved.effect]

Pending(unresolved) ==
    unresolved.checkPermission + unresolved.effect + unresolved.stale

\* the event of a render; a render that follows a render at once, scheduled
\* by a setState of the effects, is told apart from the one before it
Rendered(last) ==
    [kind |-> "render",
     by |-> IF last.kind = "render" /\ last.by = "react" THEN "effect"
            ELSE "react"]

(***************************************************************************)
(* A render of the hook followed by its effects: the cleanups of the       *)
(* previous run, then the permission effect (checkPermission and the       *)
(* listener query, or the synchronous setState of checkPermission when the *)
(* browser has no navigator.permissions), then the auto-request effect on  *)
(* the state of this render.                                               *)
(***************************************************************************)
GeoRender ==
    /\ renderScheduled
    /\ permissionStatus # Undefined => Pending(queries) + 2 <= MaxQueries
    /\ LET run == AutoRequestEffect(geolocationState, hasRequestedRef,
                                    retryAttemptedRef)
           kept == AutoRequestCleanup(timer)
           checked == IF permissionStatus = Undefined
                      THEN setState(geolocationState, "permission", "unknown")
                      ELSE geolocationState
       IN  /\ hasRequestedRef' = run.hasRequested
           /\ retryAttemptedRef' = run.retryAttempted
           /\ timer' = IF run.timer # Undefined THEN run.timer ELSE kept
           /\ geolocationState' = IF run.setState
                                  THEN setState(checked, "error", Undefined)
                                  ELSE checked
           /\ renderScheduled' = (permissionStatus = Undefined \/ run.setState)
    /\ queries' = IF permissionStatus = Undefined
                  THEN queries
                  ELSE PermissionEffect(queries)
    /\ permissionStatus' = IF permissionStatus = Undefined
                           THEN Undefined
                           ELSE [permissionStatus EXCEPT !.onchange = FALSE]
    /\ geoEvent' = Rendered(geoEvent)
    /\ UNCHANGED << isRequestingRef, navigatorGeolocation, requests,
                    positionUnavailable >>
    /\ UNCHANGED << disasterMapVars, authVars >>

\* what a resolved permission query writes to the state
Queried(previous, status, listener) ==
    LET known == setState(previous, "permission", status.state) IN
    IF listener /\ status.state = "granted"
    THEN setState(known, "error", Undefined)
    ELSE known

(***************************************************************************)
(* A permission query resolves: checkPermission's sets the permission; the *)
(* effect's also clears the error when granted and registers onchange on   *)
(* its status object, which the cleanup of its run resets only when the    *)
(* query had resolved before the cleanup.                                  *)
(***************************************************************************)
ResolveQuery(query) ==
    /\ permissionStatus # Undefined
    /\ queries[query] > 0
    /\ queries' = [queries EXCEPT ![query] = @ - 1]
    /\ geolocationState' = Queried(geolocationState, permissionStatus,
                                   query # "checkPermission")
    /\ permissionStatus' =
           CASE query = "effect" -> [permissionStatus EXCEPT !.onchange = TRUE]
             [] query = "stale" -> [permissionStatus EXCEPT !.leaked = TRUE]
             [] OTHER -> permissionStatus
    /\ renderScheduled' = TRUE
    /\ geoEvent' = [kind |-> "query", by |-> query]
    /\ UNCHANGED << isRequestingRef, hasRequestedRef, retryAttemptedRef,
                    navigatorGeolocation, timer, requests,
                    positionUnavailable >>
    /\ UNCHANGED << disasterMapVars, authVars >>

\* status.onchange (213-222)
onchange(previous, newState) ==
    LET known == setState(previous, "permission", newState) IN
    IF newState = "granted" THEN setState(known, "error", Undefined)
    ELSE known

(***************************************************************************)
(* The user or the browser changes the geolocation permission; the         *)
(* listeners registered on a status object run.                            *)
(***************************************************************************)
PermissionChange(newState) ==
    /\ permissionStatus # Undefined
    /\ newState # permissionStatus.state
    /\ permissionStatus' = [permissionStatus EXCEPT !.state = newState]
    /\ LET listening == permissionStatus.onchange \/ permissionStatus.leaked
       IN  /\ geolocationState' = IF listening
                                  THEN onchange(geolocationState, newState)
                                  ELSE geolocationState
           /\ retryAttemptedRef' = IF listening /\ newState = "granted"
                                   THEN FALSE
                                   ELSE retryAttemptedRef
           /\ renderScheduled' = (renderScheduled \/ listening)
    /\ positionUnavailable' = (positionUnavailable /\ newState # "granted")
    /\ geoEvent' = [kind |-> "change", by |-> newState]
    /\ UNCHANGED << isRequestingRef, hasRequestedRef, queries,
                    navigatorGeolocation, timer, requests >>
    /\ UNCHANGED << disasterMapVars, authVars >>

(***************************************************************************)
(* getCurrentPosition (50-132) up to the browser call: the state, the      *)
(* guard ref and the outstanding requests it leaves.  The request carries  *)
(* its manual timeout (timeoutId).                                         *)
(***************************************************************************)
getCurrentPosition(by) ==
    IF ~ navigatorGeolocation
    THEN /\ geolocationState' =
                [geolocationState EXCEPT
                    !.error = ErrorMessage("not supported"),
                    !.loading = FALSE]
         /\ renderScheduled' = TRUE
         /\ geoEvent' = [kind |-> "unsupported", by |-> by]
         /\ UNCHANGED << isRequestingRef, requests >>
    ELSE IF isRequestingRef
    THEN /\ geoEvent' = [kind |-> "ignored", by |-> by]
         /\ UNCHANGED << geolocationState, renderScheduled, isRequestingRef,
                         requests >>
    ELSE /\ Len(requests) < MaxOutstanding
         /\ isRequestingRef' = TRUE
         /\ geolocationState' = [geolocationState EXCEPT !.loading = TRUE,
                                                         !.error = Undefined]
         /\ requests' = Append(requests, [timeoutId |-> TRUE, by |-> by])
         /\ renderScheduled' = TRUE
         /\ geoEvent' = [kind |-> "request", by |-> by]

\* the component that uses the hook calls getCurrentPosition
Invoke ==
    /\ getCurrentPosition("caller")
    /\ UNCHANGED << hasRequestedRef, retryAttemptedRef, queries,
                    permissionStatus, navigatorGeolocation, timer,
                    positionUnavailable >>
    /\ UNCHANGED << disasterMapVars, authVars >>

\* the browser can answer a request with a fix unless the permission is
\* denied or still to be given
Answers(status, answer) ==
    IF status = Undefined THEN TRUE ELSE status.state = answer

Allowed == Answers(permissionStatus, "granted")

(***************************************************************************)
(* The success callback of request i (81-98).                              *)
(***************************************************************************)
OnSuccess(i) ==
    /\ i \in 1..Len(requests)
    /\ Allowed
    /\ requests' = Remove(requests, i)
    /\ isRequestingRef' = FALSE
    /\ geolocationState' = [geolocationState EXCEPT !.location = Position,
                                                    !.loading = FALSE,
                                                    !.error = Undefined,
                                                    !.permission = "granted"]
    /\ renderScheduled' = TRUE
    /\ geoEvent' = [kind |-> "success", by |-> requests[i].by]
    /\ UNCHANGED << hasRequestedRef, retryAttemptedRef, queries,
                    permissionStatus, navigatorGeolocation, timer,
                    positionUnavailable >>
    /\ UNCHANGED << disasterMapVars, authVars >>

\* the state after the error callback
Failed(previous, code) ==
    LET known == IF code = "PERMISSION_DENIED"
                 THEN setState(previous, "permission", "denied")
                 ELSE previous
    IN  [known EXCEPT !.error = ErrorMessage(code), !.loading = FALSE]

(***************************************************************************)
(* The error callback of request i (99-129).                               *)
(***************************************************************************)
OnError(i, code) ==
    /\ i \in 1..Len(requests)
    /\ IF code = "PERMISSION_DENIED"
       THEN Answers(permissionStatus, "denied")
       ELSE Allowed
    /\ requests' = Remove(requests, i)
    /\ isRequestingRef' = FALSE
    /\ hasRequestedRef' = (hasRequestedRef \/ code = "POSITION_UNAVAILABLE")
    /\ retryAttemptedRef' =
           (retryAttemptedRef \/ code = "POSITION_UNAVAILABLE")
    /\ geolocationState' = Failed(geolocationState, code)
    /\ positionUnavailable' =
           (positionUnavailable \/ code = "POSITION_UNAVAILABLE")
    /\ renderScheduled' = TRUE
    /\ geoEvent' = [kind |-> "error", by |-> code]
    /\ UNCHANGED << queries, permissionStatus, navigatorGeolocation, timer >>
    /\ UNCHANGED << disasterMapVars, authVars >>

\* the manual timeout that leaves loading set
onTimeout_keepsLoading(previous) ==
    [previous EXCEPT !.error = ErrorMessage("TIMEOUT")]

\* the state the manual timeout writes when a request is marked under way
onTimeout(previous) ==
    [previous EXCEPT !.loading = FALSE, !.error = ErrorMessage("TIMEOUT")]

(***************************************************************************)
(* A timer is due.  Timer 0 is the timer of the auto-request effect: a     *)
(* render scheduled when it was armed comes first, and the cleanup of that *)
(* render disarms it.  Timer i > 0 is the manual timeout of request i,     *)
(* which nothing but the callbacks of that request disarms.                *)
(***************************************************************************)
Due(t) ==
    IF t = 0 THEN timer # Undefined /\ ~ renderScheduled
    ELSE t \in 1..Len(requests) /\ requests[t].timeoutId

TimerFires(t) ==
    /\ Due(t)
    /\ IF t = 0
       THEN /\ timer' = Undefined
            /\ getCurrentPosition("timer")
       ELSE /\ requests' = [requests EXCEPT ![t].timeoutId = FALSE]
            /\ isRequestingRef' = FALSE
            /\ geolocationState' = IF isRequestingRef
                                   THEN onTimeout(geolocationState)
                                   ELSE geolocationState
            /\ renderScheduled' = (renderScheduled \/ isRequestingRef)
            /\ geoEvent' = [kind |-> "timeout", by |-> "timeout"]
            /\ UNCHANGED timer
    /\ UNCHANGED << hasRequestedRef, retryAttemptedRef, queries,
                    permissionStatus, navigatorGeolocation,
                    positionUnavailable >>
    /\ UNCHANGED << disasterMapVars, authVars >>

\* the hook before its first render, in a browser with or without the
\* Permissions API and the Geolocation API
InitGeo ==
    /\ MapIdle
    /\ AuthIdle
    /\ geolocationState = initialGeolocationState
    /\ isRequestingRef = FALSE
    /\ hasRequestedRef = FALSE
    /\ retryAttemptedRef = FALSE
    /\ renderScheduled = TRUE
    /\ queries = NoQueries
    /\ permissionStatus \in
           { Undefined } \cup
           { [state |-> p, onchange |-> FALSE, leaked |-> FALSE] :
                 p \in PermissionStates }
    /\ navigatorGeolocation \in BOOLEAN
    /\ timer = Undefined
    /\ requests = << >>
    /\ positionUnavailable = FALSE
    /\ geoEvent = NoGeoEvent

NextGeo ==
    \/ GeoRender
    \/ \E query \in DOMAIN NoQueries : ResolveQuery(query)
    \/ \E newState \in PermissionStates : PermissionChange(newState)
    \/ Invoke
    \/ \E i \in 1..MaxOutstanding : OnSuccess(i)
    \/ \E i \in 1..MaxOutstanding, code \in ErrorCodes : OnError(i, code)
    \/ \E t \in 0..MaxOutstanding : TimerFires(t)

SpecGeo == InitGeo /\ [][NextGeo]_vars

\* the hook in a browser whose permission setting stays as it is
NextRequest ==
    \/ GeoRender
    \/ \E query \in DOMAIN NoQueries : ResolveQuery(query)
    \/ Invoke
    \/ \E i \in 1..MaxOutstanding : OnSuccess(i)
    \/ \E i \in 1..MaxOutstanding, code \in ErrorCodes : OnError(i, code)
    \/ \E t \in 0..MaxOutstanding : TimerFires(t)

SpecRequest == InitGeo /\ [][NextRequest]_vars

\* timers fire: an armed manual timeout stays due until it fires or a
\* callback of its request disarms it
SpecRequestFair ==
    SpecRequest /\ \A t \in 1..MaxOutstanding : WF_vars(TimerFires(t))

\* renders happen, queries resolve and timers that are due fire
SpecGeoFair ==
    /\ SpecGeo
    /\ WF_vars(GeoRender)
    /\ WF_vars(\E query \in DOMAIN NoQueries : ResolveQuery(query))
    /\ \A t \in 0..MaxOutstanding : SF_vars(TimerFires(t))

(***************************************************************************)
(* C34.  A rejected getCurrentUser, whatever the reason, ends the session: *)
(* no token, no user, not authenticated, not loading, no item in           *)
(* localStorage.  Without a token in the state the thunk rejects and sends *)
(* no request.                                                             *)
(***************************************************************************)
GetCurrentUserRejected ==
    /\ authEvent.thunk = "getCurrentUser"
    /\ \E i \in 1..Len(authEvent.dispatched) :
           authEvent.dispatched[i].name = "rejected"

GetCurrentUserCalled ==
    authEvent.kind = "request" /\ authEvent.thunk = "getCurrentUser"

C34_RejectedGetCurrentUserEndsSession ==
    /\ [](GetCurrentUserRejected => SessionOver /\ ~ auth.isLoading)
    /\ [][(auth.token = Undefined /\ GetCurrentUserCalled')
              => (inflight' = inflight /\ GetCurrentUserRejected')]_vars

\* getCurrentUser called without a token while a request that carries no
\* token is under way
C34_Witness ==
    /\ GetCurrentUserCalled
    /\ GetCurrentUserRejected
    /\ inflight # << >>
    /\ inflight[Len(inflight)].thunk # "getCurrentUser"

(***************************************************************************)
(* C35.  In every auth state isAuthenticated implies a token, whatever the *)
(* order in which the thunks complete.                                     *)
(***************************************************************************)
C35_AuthenticatedHasToken == auth.isAuthenticated => auth.token # Undefined

(***************************************************************************)
(* C36.  isLoading is true exactly while at least one auth request is in   *)
(* flight.                                                                 *)
(***************************************************************************)
C36_LoadingWhileInFlight == auth.isLoading <=> inflight # << >>

(***************************************************************************)
(* C37.  A synchronization pass leaves the popup alone: content, overlay   *)
(* position and popup state are those before the pass, so the popup still  *)
(* shows the content and position of the click that opened it.             *)
(***************************************************************************)
AfterSync == lastEvent \in { "reports", "userLocation" }

PopupOfClick ==
    popupOverlayPosition # Undefined =>
        /\ popupElement = << ContentFor(clickLog.feature) >>
        /\ popupOverlayPosition = clickLog.feature.geometry.coordinates
        /\ PopupState = StateFor(clickLog.feature)

C37_SyncKeepsPopup ==
    /\ [](AfterSync => PopupOfClick)
    /\ [][AfterSync' => /\ popupElement' = popupElement
                        /\ popupOverlayPosition' = popupOverlayPosition
                        /\ PopupState' = PopupState]_vars

\* the popup of a report is shown after the report left the list
C37_Witness ==
    /\ lastEvent = "reports"
    /\ PopupState.state = "ShownForReport"
    /\ \A i \in 1..Len(reports) : reports[i].id # PopupState.reportId
    /\ popupElement = << ReportPopupContent(clickLog.feature.properties.reportData) >>

(***************************************************************************)
(* C38.  While a map is live and the last pass of the animation effect     *)
(* resolved a target, the animation issued last to that map has the        *)
(* target as destination, also on the map StrictMode constructs after the  *)
(* cleanup of the first.                                                   *)
(***************************************************************************)
C38_LiveMapAnimatedToTarget ==
    (Mounted /\ mapInstance # Undefined /\ effectLog.target # Undefined) =>
        /\ animation # Undefined
        /\ animation.center = Projection(effectLog.target)


(***************************************************************************)
(* C31.  At any time at most one getCurrentPosition request issued by the  *)
(* hook is outstanding, that is issued with neither of its callbacks       *)
(* delivered.                                                              *)
(***************************************************************************)
C31_AtMostOneOutstanding == Len(requests) <= 1

(***************************************************************************)
(* C32.  Once the auto-request effect has scheduled the initial request    *)
(* (permission granted, no location, not loading), the scheduled call to   *)
(* getCurrentPosition fires without the caller invoking it.                *)
(***************************************************************************)
InitialScheduled == timer # Undefined /\ timer = [delay |-> InitialDelay]

AutomaticCall == geoEvent.by = "timer"

C32_InitialRequestFires == [](InitialScheduled => <>AutomaticCall)

(***************************************************************************)
(* C33.  After a POSITION_UNAVAILABLE failure, as long as the permission   *)
(* does not change to granted, the auto-request effect schedules nothing   *)
(* and no step is an automatic call of getCurrentPosition.                 *)
(***************************************************************************)
NothingScheduled ==
    AutoRequestEffect(geolocationState, hasRequestedRef,
                      retryAttemptedRef).timer = Undefined

C33_NoAutomaticRequestAfterUnavailable ==
    /\ [](positionUnavailable => NothingScheduled)
    /\ [][positionUnavailable' => ~ AutomaticCall']_vars

\* the hook has rendered after the failure with the permission granted, no
\* location and nothing loading, and no timer is armed
C33_Witness ==
    /\ positionUnavailable
    /\ geoEvent.kind = "render"
    /\ ~ renderScheduled
    /\ geolocationState.permission = "granted"
    /\ geolocationState.location = Undefined
    /\ ~ geolocationState.loading
    /\ timer = Undefined

(***************************************************************************)
(* C39.  Every getCurrentPosition call that sets loading is eventually     *)
(* followed by loading = false, whichever of the success callback, the     *)
(* error callback and the manual timeout comes.                            *)
(***************************************************************************)
RequestIssued == geoEvent.kind = "request" /\ geolocationState.loading

C39_LoadingEnds == [](RequestIssued => <>(~ geolocationState.loading))

\* the manual timeout ended the loading of a request the browser has not
\* answered
C39_Witness ==
    /\ geoEvent.kind = "timeout"
    /\ ~ geolocationState.loading
    /\ geolocationState.error = ErrorMessage("TIMEOUT")
    /\ Len(requests) = 1
    /\ ~ requests[1].timeoutId

(***************************************************************************)
(* C40.  Without external events (permission change, geolocation callback, *)
(* caller invocation) the hook reaches a state in which no render, no      *)
(* permission query and no timer of an effect is pending, and stays there. *)
(***************************************************************************)
InternalKinds == { "mount", "render", "query", "timeout" }

Quiescent ==
    /\ ~ renderScheduled
    /\ Pending(queries) = 0
    /\ timer = Undefined

C40_Quiesces == <>[](geoEvent.kind \in InternalKinds) => <>[]Quiescent

=============================================================================
